---- MODULE Spec2Model ----
(***************************************************************************)
(* A model of the form-state and validation engine of                      *)
(* react-native-fn-forms (src/src/hooks/useSmartForm.ts), of its           *)
(* validators (src/unnamed/part_005) and of its formatters                 *)
(* (src/src/utils/formatters.ts).                                          *)
(*                                                                         *)
(* A JavaScript string is a sequence of one-character strings.  An error  *)
(* message is a sequence of tokens; the empty sequence is the falsy       *)
(* result (null, or the empty string).                                     *)
(*                                                                         *)
(* The hook is a React hook: every callback closes over the values,       *)
(* errors and touched of the render that created it, while the functional *)
(* updates setX(prev => ...) apply to the newest state.  The caller is    *)
(* taken to call the callbacks of the newest render, so a caller          *)
(* operation reads the current state; a timer callback keeps the closure  *)
(* of the render in which it was scheduled.                                *)
(***************************************************************************)
EXTENDS Integers, Sequences, FiniteSets, Bags, TLC

VARIABLES
    config,          \* FormConfig.fields: [order: key order, fields: name -> FieldConfig]
    mode,            \* mergedConfig.validation.mode
    debounce,        \* mergedConfig.validation.debounce
    showErrorsOn,    \* mergedConfig.validation.showErrorsOn
    values,          \* useState<FormValues>
    errors,          \* useState<FormErrors>
    touched,         \* useState<FormTouched>
    isSubmitting,    \* useState(false)
    debounceTimers,  \* debounceTimers.current: field -> the pending timer's closure
    blurTimers,      \* pending setTimeout(..., 0) callbacks of setFieldTouched
    submits,         \* submitForm calls suspended at `await validateForm()`
    cascades,        \* cascade callbacks of setFieldValue suspended at their `await`
    timeouts,        \* the runtime's pending setTimeout callbacks of setFieldValue, a bag
    mounted,         \* the component that called the hook is mounted
    autoSave,        \* config.autoSave, with config.onDraftFound and how config is built
    store,           \* the storage adapter's content: key -> stored string
    draftLoaded,     \* useState(false): a draft has been applied
    saveTimers,      \* the pending setTimeout callbacks of the auto-save effect
    autoSaveTimer,   \* autoSaveTimer.current: the handle the effect set last
    loads,           \* mount-time storage.load calls that have not resolved yet
    now,             \* Date.now(), in ms since the mount
    mutatedAt,       \* history: when values or touched were last set, if ever
    draftFound,      \* history: onDraftFound has been called
    cleared,         \* history: clearDraft removed the draft and no setValues or setTouched followed
    last,            \* history: the step taken last, with what it read and returned
    afterSubmit      \* history: a submitForm has returned and no caller operation followed

vars == <<config, autoSave, mode, debounce, showErrorsOn, values, errors, touched,
          isSubmitting, debounceTimers, blurTimers, submits, cascades, timeouts,
          mounted, store,
          draftLoaded,
          saveTimers, autoSaveTimer, loads, now, mutatedAt, draftFound, cleared,
          last,
          afterSubmit>>

-----------------------------------------------------------------------------
(* Characters and strings *)

Digits == <<"0", "1", "2", "3", "4", "5", "6", "7", "8", "9">>
LowerSeq == <<"a", "b", "c", "d", "e", "f", "g", "h", "i", "j", "k", "l", "m",
              "n", "o", "p", "q", "r", "s", "t", "u", "v", "w", "x", "y", "z">>
UpperSeq == <<"A", "B", "C", "D", "E", "F", "G", "H", "I", "J", "K", "L", "M",
              "N", "O", "P", "Q", "R", "S", "T", "U", "V", "W", "X", "Y", "Z">>

Range(s) == {s[i] : i \in DOMAIN s}
Digit == Range(Digits)
Lower == Range(LowerSeq)
Upper == Range(UpperSeq)
Letter == Lower \cup Upper
WhiteSpace == {" ", "\t", "\n"}

IndexOf(seq, c) == CHOOSE i \in DOMAIN seq : seq[i] = c

\* String.prototype.toLowerCase, character by character
LowerChar(c) == IF c \in Upper THEN LowerSeq[IndexOf(UpperSeq, c)] ELSE c
ToLowerCase(s) == [i \in DOMAIN s |-> LowerChar(s[i])]

\* parseInt of one decimal digit
DigitValue(c) == IndexOf(Digits, c) - 1

\* the values that are not strings
UNDEFINED == <<"#undefined">>
NULL == <<>>
\* a rejected promise / a thrown exception
THROWN == <<"#thrown">>

\* JavaScript truthiness of a string-or-undefined value
Truthy(v) == v # UNDEFINED /\ v # <<>>

AllIn(s, class) == \A i \in DOMAIN s : s[i] \in class

RECURSIVE TrimStart(_)
TrimStart(s) ==
    IF s # <<>> /\ Head(s) \in WhiteSpace THEN TrimStart(Tail(s)) ELSE s

RECURSIVE TrimEnd(_)
TrimEnd(s) ==
    IF s # <<>> /\ s[Len(s)] \in WhiteSpace
    THEN TrimEnd(SubSeq(s, 1, Len(s) - 1))
    ELSE s

\* String.prototype.trim
Trim(s) == TrimEnd(TrimStart(s))

\* value.replace(/\s/g, '') and value.replace(/\D/g, '')
Keep(s, class) == SelectSeq(s, LAMBDA c : c \in class)
StripSpaces(s) == SelectSeq(s, LAMBDA c : c \notin WhiteSpace)

-----------------------------------------------------------------------------
(* src/src/utils/formatters.ts *)

\* formatters.text
FormatText(value) == Trim(value)

\* formatters.email
FormatEmail(value) == ToLowerCase(Trim(value))

\* cleaned.replace(/(.{4})/g, '$1 '): a space after every full group of four
RECURSIVE GroupByFour(_)
GroupByFour(s) ==
    IF Len(s) < 4 THEN s
    ELSE SubSeq(s, 1, 4) \o <<" ">> \o GroupByFour(SubSeq(s, 5, Len(s)))

\* formatters.creditCard
FormatCreditCard(value) == Trim(GroupByFour(Keep(value, Digit)))

\* String.prototype.toUpperCase of one character
UpperChar(c) == IF c \in Lower THEN UpperSeq[IndexOf(LowerSeq, c)] ELSE c

\* value.replace(/\s+/g, ' ')
RECURSIVE CollapseSpaces(_)
CollapseSpaces(s) ==
    IF s = <<>> THEN s
    ELSE IF Head(s) \in WhiteSpace THEN <<" ">> \o CollapseSpaces(TrimStart(Tail(s)))
    ELSE <<Head(s)>> \o CollapseSpaces(Tail(s))

\* formatters.personName: .replace(/^./, upper) and .replace(/\s./g, upper)
\* after trim and the collapse of spaces
FormatPersonName(value) ==
    LET spaced == CollapseSpaces(Trim(value))
    IN  [i \in DOMAIN spaced |->
            IF i = 1 \/ spaced[i - 1] \in WhiteSpace
            THEN UpperChar(spaced[i]) ELSE spaced[i]]

\* formatters.businessName
FormatBusinessName(value) == CollapseSpaces(Trim(value))

\* formatters.phone with the default format 'national'
FormatPhone(value) ==
    LET cleaned == Keep(value, Digit)
    IN  IF Len(cleaned) = 10
        THEN <<"(">> \o SubSeq(cleaned, 1, 3) \o <<")", " ">> \o SubSeq(cleaned, 4, 6)
             \o <<"-">> \o SubSeq(cleaned, 7, 10)
        ELSE IF Len(cleaned) = 11 /\ cleaned[1] = "1"
        THEN <<"+", "1", " ", "(">> \o SubSeq(cleaned, 2, 4) \o <<")", " ">>
             \o SubSeq(cleaned, 5, 7) \o <<"-">> \o SubSeq(cleaned, 8, 11)
        ELSE value

\* formatters.currency: with more than two parts the extra decimal points are
\* removed and the result returned; with two, the decimals are cut to 2 places
FormatCurrency(value) ==
    LET cleaned == Keep(value, Digit \cup {"."})
        points == {i \in DOMAIN cleaned : cleaned[i] = "."}
        first == CHOOSE i \in points : \A j \in points : i <= j
    IN  IF Cardinality(points) > 1
        THEN SubSeq(cleaned, 1, first)
             \o Keep(SubSeq(cleaned, first + 1, Len(cleaned)), Digit)
        ELSE IF Cardinality(points) = 1 /\ Len(cleaned) - first > 2
        THEN SubSeq(cleaned, 1, first + 2)
        ELSE cleaned

\* .replace(/^[_-]+|[_-]+$/g, '')
RECURSIVE StripLeading(_, _)
StripLeading(s, class) ==
    IF s # <<>> /\ Head(s) \in class THEN StripLeading(Tail(s), class) ELSE s

RECURSIVE StripTrailing(_, _)
StripTrailing(s, class) ==
    IF s # <<>> /\ s[Len(s)] \in class
    THEN StripTrailing(SubSeq(s, 1, Len(s) - 1), class)
    ELSE s

\* formatters.username
FormatUsername(value) ==
    LET kept == Keep(ToLowerCase(value), Lower \cup Digit \cup {"_", "-"})
    IN  StripTrailing(StripLeading(kept, {"_", "-"}), {"_", "-"})

StartsWith(s, prefix) == Len(s) >= Len(prefix) /\ SubSeq(s, 1, Len(prefix)) = prefix

Http == <<"h", "t", "t", "p", ":", "/", "/">>
Https == <<"h", "t", "t", "p", "s", ":", "/", "/">>

\* formatters.url
FormatUrl(value) ==
    LET trimmed == ToLowerCase(Trim(value))
    IN  IF trimmed # <<>> /\ ~StartsWith(trimmed, Http) /\ ~StartsWith(trimmed, Https)
        THEN Https \o trimmed
        ELSE trimmed

\* \w
WordChar == Letter \cup Digit \cup {"_"}

\* formatters.streetAddress: .replace(/\b\w/g, upper) after trim and the collapse
FormatStreetAddress(value) ==
    LET spaced == CollapseSpaces(Trim(value))
    IN  [i \in DOMAIN spaced |->
            IF spaced[i] \in WordChar /\ (i = 1 \/ spaced[i - 1] \notin WordChar)
            THEN UpperChar(spaced[i]) ELSE spaced[i]]

\* formatters.number
FormatNumber(value) == Keep(value, Digit \cup {".", "-"})

\* formatters.auto: the type's formatter when formatters has one, else formatters.text
FormatAuto(value, fieldType) ==
    CASE fieldType = "email" -> FormatEmail(value)
      [] fieldType = "creditCard" -> FormatCreditCard(value)
      [] fieldType = "personName" -> FormatPersonName(value)
      [] fieldType = "businessName" -> FormatBusinessName(value)
      [] fieldType = "phone" -> FormatPhone(value)
      [] fieldType = "currency" -> FormatCurrency(value)
      [] fieldType = "username" -> FormatUsername(value)
      [] fieldType = "url" -> FormatUrl(value)
      [] fieldType = "streetAddress" -> FormatStreetAddress(value)
      [] fieldType = "number" -> FormatNumber(value)
      [] OTHER -> FormatText(value)

-----------------------------------------------------------------------------
(* src/unnamed/part_005: PATTERNS, ERROR_MESSAGES, validators *)

\* the types for which PATTERNS has an entry (of the types this model uses)
PatternTypes == {"email", "creditCard", "otp", "username"}

NotSpaceOrAt(s) == s # <<>> /\ \A i \in DOMAIN s : s[i] \notin WhiteSpace \cup {"@"}

\* /^[^\s@]+@[^\s@]+\.[^\s@]+$/
MatchEmail(s) ==
    \E i \in DOMAIN s : \E j \in DOMAIN s :
        /\ i < j
        /\ s[i] = "@"
        /\ s[j] = "."
        /\ NotSpaceOrAt(SubSeq(s, 1, i - 1))
        /\ NotSpaceOrAt(SubSeq(s, i + 1, j - 1))
        /\ NotSpaceOrAt(SubSeq(s, j + 1, Len(s)))

\* PATTERNS[fieldType].test(value)
PatternTest(fieldType, s) ==
    CASE fieldType = "email" -> MatchEmail(s)
      [] fieldType = "creditCard" -> s # <<>> /\ AllIn(s, Digit \cup WhiteSpace)
      [] fieldType = "otp" -> s # <<>> /\ AllIn(s, Digit)
      [] fieldType = "username" -> s # <<>> /\ AllIn(s, Letter \cup Digit \cup {"_", "-"})

\* ERROR_MESSAGES
RequiredMessage == <<"This field is required">>
MinLengthMessage(min) == <<"Must be at least ", min, " characters long">>
MaxLengthMessage(max) == <<"Must not exceed ", max, " characters">>
PatternMessage(fieldType) ==
    CASE fieldType = "email" -> <<"Please enter a valid email address">>
      [] fieldType = "creditCard" ->
            <<"Credit card numbers can only contain digits and spaces">>
      [] fieldType = "otp" -> <<"OTP can only contain numbers">>
      [] fieldType = "username" ->
            <<"Username can only contain letters, numbers, underscores, and hyphens">>
      [] OTHER -> <<"Invalid format">>
CardLengthMessage == <<"Credit card number must be between 13 and 19 digits">>
CardLuhnMessage == <<"Please enter a valid credit card number">>

\* luhnCheck with no digit doubled
RECURSIVE PlainSum(_)
PlainSum(digits) ==
    IF digits = <<>> THEN 0 ELSE DigitValue(Head(digits)) + PlainSum(Tail(digits))

luhnCheckUndoubled(cardNumber) == PlainSum(StripSpaces(cardNumber)) % 10 = 0

\* luhnCheck: the digits reversed, every second one doubled (minus 9 above 9)
RECURSIVE LuhnSum(_, _)
LuhnSum(digits, i) ==
    IF i >= Len(digits) THEN 0
    ELSE LET d == DigitValue(digits[Len(digits) - i])
             dd == IF i % 2 = 1 THEN (IF 2 * d > 9 THEN 2 * d - 9 ELSE 2 * d) ELSE d
         IN  dd + LuhnSum(digits, i + 1)

luhnCheck(cardNumber) == LuhnSum(StripSpaces(cardNumber), 0) % 10 = 0

\* validators.required
required(value) ==
    IF value = UNDEFINED \/ value = <<>> \/ Trim(value) = <<>>
    THEN RequiredMessage ELSE NULL

\* validators.minLength(min)(value)
minLength(min, value) ==
    IF Truthy(value) /\ Len(value) < min THEN MinLengthMessage(min) ELSE NULL

\* validators.maxLength(max)(value)
maxLength(max, value) ==
    IF Truthy(value) /\ Len(value) > max THEN MaxLengthMessage(max) ELSE NULL

\* validators.pattern(fieldType)(value)
pattern(fieldType, value) ==
    IF ~Truthy(value) THEN NULL
    ELSE IF fieldType \notin PatternTypes THEN NULL
    ELSE IF ~PatternTest(fieldType, value) THEN PatternMessage(fieldType)
    ELSE NULL

MinCardDigits == 13
MaxCardDigits == 19

\* validators.creditCardLuhn
creditCardLuhn(value) ==
    IF ~Truthy(value) THEN NULL
    ELSE LET cleanValue == StripSpaces(value)
         IN  IF Len(cleanValue) < MinCardDigits \/ Len(cleanValue) > MaxCardDigits
             THEN CardLengthMessage
             ELSE IF ~luhnCheck(cleanValue) THEN CardLuhnMessage
             ELSE NULL

-----------------------------------------------------------------------------
(* FieldConfig (src/src/types.ts) and the caller-supplied functions *)

\* A FieldConfig.  An option the caller leaves out is falsy: minLength and
\* maxLength 0, matchField "", matchErrorMessage NULL, pattern and
\* customValidation "none".
Field(type, req, min, max, pat, match, matchMsg, custom) ==
    [type |-> type, required |-> req, minLength |-> min, maxLength |-> max,
     pattern |-> pat, matchField |-> match, matchErrorMessage |-> matchMsg,
     customValidation |-> custom]

ZipMessage == <<"ZIP code must be in format 12345 or 12345-6789">>

\* /^\d{5}(-\d{4})?$/
MatchZip(s) ==
    \/ Len(s) = 5 /\ AllIn(s, Digit)
    \/ /\ Len(s) = 10
       /\ AllIn(SubSeq(s, 1, 5), Digit)
       /\ s[6] = "-"
       /\ AllIn(SubSeq(s, 7, 10), Digit)

\* /^[A-Z]{3}-\d{4}$/, the `pattern` option of the documentation's example
MatchCode(s) ==
    /\ Len(s) = 8
    /\ AllIn(SubSeq(s, 1, 3), Upper)
    /\ s[4] = "-"
    /\ AllIn(SubSeq(s, 5, 8), Digit)

\* fieldConfig.customValidation(value) for the validators of the model's forms:
\* "zip" is the documentation's ZIP validator, "failing" one that throws on
\* every value it is given.
CustomValidation(id, value) ==
    CASE id = "zip" ->
            IF value = UNDEFINED THEN THROWN
            ELSE IF MatchZip(value) THEN NULL ELSE ZipMessage
      [] id = "failing" -> THROWN

\* values[fieldName]
ValueOf(vals, fieldName) ==
    IF fieldName \in DOMAIN vals THEN vals[fieldName] ELSE UNDEFINED

-----------------------------------------------------------------------------
(* src/src/hooks/useSmartForm.ts: the validation pipeline *)

\* `Must match ${fieldConfig.matchField}`
MatchMessage(fieldConfig) ==
    IF fieldConfig.matchErrorMessage # NULL
    THEN fieldConfig.matchErrorMessage
    ELSE <<"Must match ", fieldConfig.matchField>>

\* customValidation consulted before matchField
ValidateCustomThenMatch(fieldConfig, vals, value) ==
    IF fieldConfig.customValidation # "none"
         /\ CustomValidation(fieldConfig.customValidation, value) # NULL
    THEN CustomValidation(fieldConfig.customValidation, value)
    ELSE IF fieldConfig.matchField # ""
              /\ value # ValueOf(vals, fieldConfig.matchField)
    THEN MatchMessage(fieldConfig)
    ELSE NULL

\* the match check comparing without regard to case
ValidateMatchIgnoringCase(fieldConfig, vals, value) ==
    IF /\ fieldConfig.matchField # ""
       /\ ToLowerCase(value) # ToLowerCase(ValueOf(vals, fieldConfig.matchField))
    THEN MatchMessage(fieldConfig)
    ELSE IF fieldConfig.customValidation # "none"
    THEN LET customError == CustomValidation(fieldConfig.customValidation, value)
         IN  IF customError # NULL THEN customError ELSE NULL
    ELSE NULL

\* validateField, checks 6 and 7: matchField, then customValidation
ValidateMatchAndCustom(fieldConfig, vals, value) ==
    IF fieldConfig.matchField # "" /\ value # ValueOf(vals, fieldConfig.matchField)
    THEN MatchMessage(fieldConfig)
    ELSE IF fieldConfig.customValidation # "none"
    THEN LET customError == CustomValidation(fieldConfig.customValidation, value)
         IN  IF customError # NULL THEN customError ELSE NULL
    ELSE NULL

\* validateField, checks 3 to 5: minLength, maxLength, pattern, credit card
ValidateLengthAndPattern(fieldConfig, vals, value) ==
    IF fieldConfig.minLength # 0 /\ minLength(fieldConfig.minLength, value) # NULL
    THEN minLength(fieldConfig.minLength, value)
    ELSE IF fieldConfig.maxLength # 0 /\ maxLength(fieldConfig.maxLength, value) # NULL
    THEN maxLength(fieldConfig.maxLength, value)
    ELSE IF pattern(fieldConfig.type, value) # NULL
    THEN pattern(fieldConfig.type, value)
    ELSE IF fieldConfig.type = "creditCard" /\ creditCardLuhn(value) # NULL
    THEN creditCardLuhn(value)
    ELSE ValidateMatchAndCustom(fieldConfig, vals, value)

\* validateField without the early exit for an empty value that is not required
ValidateFieldNoEarlyExit(fields, vals, fieldName) ==
    IF fieldName \notin DOMAIN fields THEN NULL
    ELSE LET fieldConfig == fields[fieldName]
             value == ValueOf(vals, fieldName)
         IN  IF fieldConfig.required /\ required(value) # NULL
             THEN required(value)
             ELSE ValidateLengthAndPattern(fieldConfig, vals, value)

\* validateField(fieldName) in a closure whose `values` is vals: the message of
\* the first failing check, NULL when none fails, THROWN when customValidation
\* throws (the promise rejects)
ValidateField(fields, vals, fieldName) ==
    IF fieldName \notin DOMAIN fields THEN NULL
    ELSE LET fieldConfig == fields[fieldName]
             value == ValueOf(vals, fieldName)
         IN  IF fieldConfig.required /\ required(value) # NULL
             THEN required(value)
             ELSE IF ~Truthy(value) /\ ~fieldConfig.required
             THEN NULL
             ELSE ValidateLengthAndPattern(fieldConfig, vals, value)

EmptyMap == [f \in {} |-> NULL]

\* { ...m, [k]: v }
Put(m, k, v) == [x \in DOMAIN m \cup {k} |-> IF x = k THEN v ELSE m[x]]

\* delete m[k]
Del(m, k) == [x \in DOMAIN m \ {k} |-> m[x]]

\* validateForm returning at the first field that fails
RECURSIVE ValidateFormFirstError(_, _, _, _)
ValidateFormFirstError(cfg, vals, i, newErrors) ==
    IF i > Len(cfg.order) THEN [threw |-> FALSE, errors |-> newErrors]
    ELSE LET fieldName == cfg.order[i]
             error == ValidateField(cfg.fields, vals, fieldName)
         IN  IF error = THROWN THEN [threw |-> TRUE, errors |-> newErrors]
             ELSE IF error # NULL
             THEN [threw |-> FALSE, errors |-> Put(newErrors, fieldName, error)]
             ELSE ValidateFormFirstError(cfg, vals, i + 1, newErrors)

\* the loop of validateForm over Object.keys(config.fields) from index i on;
\* threw: a validateField rejected, and the loop ended there
RECURSIVE ValidateFormFrom(_, _, _, _)
ValidateFormFrom(cfg, vals, i, newErrors) ==
    IF i > Len(cfg.order) THEN [threw |-> FALSE, errors |-> newErrors]
    ELSE LET fieldName == cfg.order[i]
             error == ValidateField(cfg.fields, vals, fieldName)
         IN  IF error = THROWN THEN [threw |-> TRUE, errors |-> newErrors]
             ELSE IF error # NULL
             THEN ValidateFormFrom(cfg, vals, i + 1, Put(newErrors, fieldName, error))
             ELSE ValidateFormFrom(cfg, vals, i + 1, newErrors)

\* validateForm() in a closure whose `values` is vals
ValidateForm(cfg, vals) == ValidateFormFrom(cfg, vals, 1, EmptyMap)

-----------------------------------------------------------------------------
(* The forms of the model *)

Secret123 == <<"S", "e", "c", "r", "e", "t", "1", "2", "3">>
Changed456 == <<"C", "h", "a", "n", "g", "e", "d", "4", "5", "6">>
UserExampleCom == <<"U", "s", "e", "r", "@", "E", "x", "a", "m", "p", "l", "e", ".", "c", "o", "m">>
NotAnEmail == <<"b", "a", "d">>
Zip12345 == <<"1", "2", "3", "4", "5">>
Token == <<" ", "a", "b", "c">>
ServerError == <<"Server error">>

\* the documentation's signup form: a password and its confirmation
SignupForm ==
    [order |-> <<"password", "confirmPassword">>,
     fields |->
        [password |-> Field("password", TRUE, 8, 0, "none", "", NULL, "none"),
         confirmPassword |->
            Field("password", TRUE, 0, 0, "none", "password", NULL, "none")]]

\* a required e-mail address
ContactForm ==
    [order |-> <<"email">>,
     fields |-> [email |-> Field("email", TRUE, 0, 0, "none", "", NULL, "none")]]

\* one required field whose custom validator throws
ServiceForm ==
    [order |-> <<"token">>,
     fields |-> [token |-> Field("text", TRUE, 0, 0, "none", "", NULL, "failing")]]

Forms == {SignupForm, ContactForm, ServiceForm}

\* card numbers that pass the Luhn checksum: of 13, 16 and 19 digits, thirteen
\* zeros, and of 12 and 20 digits
Card13 ==
    <<"4", "5", "3", "2", "0", "1", "5", "1", "1", "2", "8", "3", "0">>
Card16 ==
    <<"4", "5", "3", "2", "0", "1", "5", "1", "1", "2", "8", "3", "0", "3", "6", "6">>
Card19 ==
    <<"4", "5", "3", "2", "0", "1", "5", "1", "1", "2", "8", "3", "0", "3", "6", "6",
      "1", "2", "0">>
CardZeros ==
    <<"0", "0", "0", "0", "0", "0", "0", "0", "0", "0", "0", "0", "0">>
Card12 ==
    <<"4", "5", "3", "2", "0", "1", "5", "1", "1", "2", "8", "5">>
Card20 ==
    <<"4", "5", "3", "2", "0", "1", "5", "1", "1", "2", "8", "3", "0", "3", "6", "6",
      "1", "2", "3", "0">>

CardBases == {Card13, Card16, Card19, CardZeros, Card12, Card20}

\* the numbers that differ from a base of 13 to 19 digits in exactly one digit
CardTypos ==
    {[b EXCEPT ![i] = d] :
        <<b, i, d>> \in {t \in {Card13, Card16, Card19, CardZeros}
                                \X (1..MaxCardDigits) \X Digit :
                            t[2] <= Len(t[1]) /\ t[1][t[2]] # t[3]}}

CardNumbers == CardBases \cup CardTypos

\* what the caller types into a field of any type: names, an address, phone and
\* card numbers, amounts, a user name, a host name
JohnDoe == <<" ", "j", "o", "h", "n", " ", " ", "d", "o", "e", " ">>
AcmeCo == <<"a", "c", "m", "e", " ", " ", "&", " ", "c", "o">>
UserEmail == <<" ", "U", "s", "e", "r", "@", "E", "x", "a", "m", "p", "l", "e", ".", "c", "o", "m">>
TenDigits == <<"5", "5", "5", "-", "1", "2", "3", "-", "4", "5", "6", "7">>
ElevenDigits == <<"1", " ", "5", "5", "5", " ", "1", "2", "3", " ", "4", "5", "6", "7">>
CardDigits == <<"4", "5", "3", "2", "-", "0", "1", "5", "1", "-", "1", "2", "8", "3", "-", "0", "3", "6", "6">>
Amount == <<"$", "1", "2", ".", "3", "4", "5">>
TwoPoints == <<"1", ".", "2", ".", "3", "4", "5">>
Handle == <<"_", "A", "b", "-", "c", "!", "_">>
Site == <<"E", "x", "a", "m", "p", "l", "e", ".", "c", "o", "m">>
Street == <<"1", "2", " ", "m", "a", "i", "n", " ", "s", "t", ".">>
Signed == <<"-", "1", ".", "5", "a">>

FormatInputs ==
    {JohnDoe, AcmeCo, UserEmail, TenDigits, ElevenDigits, CardDigits, Amount,
     TwoPoints, Handle, Site, Street, Signed}

\* what the caller types into a field
RawInputs(fieldName) ==
    CASE fieldName = "password" -> {Secret123, Changed456}
      [] fieldName = "confirmPassword" -> {Secret123}
      [] fieldName = "email" -> {UserExampleCom, NotAnEmail}
      [] fieldName = "token" -> {Token}
      [] fieldName = "name" -> {<<"A">>, <<"A", "b">>}
      [] fieldName = "card" -> CardNumbers
      [] fieldName = "input" -> FormatInputs

\* an option the caller left out: a string option reads as undefined, a number
\* option as Absent
Absent == -1

\* config.validation; `supplied` is FALSE when the caller gives no validation object
Validation(supplied, m, d, s) ==
    [supplied |-> supplied, mode |-> m, debounce |-> d, showErrorsOn |-> s]

NoValidation == Validation(FALSE, "#undefined", Absent, "#undefined")

DefaultDebounce == 300

\* DEFAULT_CONFIG.validation
DEFAULT_CONFIG == Validation(TRUE, "onChange", DefaultDebounce, "touched")

\* mergedConfig = { ...DEFAULT_CONFIG, ...config }: the spread is shallow, so a
\* validation object of the caller replaces the default one as a whole
MergedValidation(validation) ==
    IF validation.supplied THEN validation ELSE DEFAULT_CONFIG

\* the validation options of the engine's forms: none (the defaults), and the
\* other trigger modes and error policies
ValidationConfigs ==
    {NoValidation,
     Validation(TRUE, "onChange", Absent, "submit"),
     Validation(TRUE, "onBlur", Absent, "touched"),
     Validation(TRUE, "onSubmit", Absent, "immediate")}

FieldNames == DOMAIN config.fields

\* pending setTimeout(..., 0) callbacks the model keeps at a time
MaxPending == 1

-----------------------------------------------------------------------------
(* src/src/hooks/useSmartForm.ts: the engine *)

\* the history record of a step
Step(op, fieldName, value, written, ret, retMap, fresh) ==
    [op |-> op, field |-> fieldName, value |-> value, written |-> written,
     ret |-> ret, retMap |-> retMap, fresh |-> fresh]

\* initialValues: '' for every declared field
InitialValues(cfg) == [f \in DOMAIN cfg.fields |-> <<>>]

\* const isValid = Object.keys(errors).length === 0 && Object.keys(touched).length > 0
isValid == Cardinality(DOMAIN errors) = 0 /\ Cardinality(DOMAIN touched) > 0

\* touched[fieldName], as a condition
IsTouched(t, fieldName) == fieldName \in DOMAIN t /\ t[fieldName]

\* errors[fieldName]; undefined is as falsy as NULL
ErrorOf(errs, fieldName) == IF fieldName \in DOMAIN errs THEN errs[fieldName] ELSE NULL

\* the continuations of `await` run as microtasks, before any timer or event
MicrotasksDrained == submits = <<>> /\ cascades = <<>>

\* fieldConfig.debounce; Absent when the field does not configure it
FieldDebounce(fieldConfig) ==
    IF "debounce" \in DOMAIN fieldConfig THEN fieldConfig.debounce ELSE Absent

\* a || b on numbers: b when a is undefined or 0
OrElse(a, b) == IF a = Absent \/ a = 0 THEN b ELSE a

\* config.autoSave and the callbacks beside it.  `configured` is
\* `config.autoSave?.enabled && config.autoSave?.storage`; `inline` says that the
\* caller writes the configuration as an object literal in the component, as the
\* documentation does, so that every render passes a new config object
AutoSave(configured, debounceMs, expirationDays, onDraftFound, inline) ==
    [configured |-> configured, debounce |-> debounceMs,
     expirationDays |-> expirationDays, onDraftFound |-> onDraftFound,
     inline |-> inline]

NoAutoSave == AutoSave(FALSE, Absent, Absent, FALSE, FALSE)

\* config.autoSave.key
AutoSaveKey == "registration-form-draft"

DefaultAutoSaveDebounce == 1000

\* const debounceTime = config.autoSave.debounce || 1000
AutoSaveDebounceTime == OrElse(autoSave.debounce, DefaultAutoSaveDebounce)

DayMs == 24 * 60 * 60 * 1000

\* a stored string, or what JSON.parse makes of it: kind "json" is a serialized
\* DraftData, "object" is '{}', "garbage" does not parse, "null" is no data
Doc(kind, vals, tch, timestamp) ==
    [kind |-> kind, values |-> vals, touched |-> tch, timestamp |-> timestamp]

NoData == Doc("null", EmptyMap, EmptyMap, 0)
EmptyObject == Doc("object", EmptyMap, EmptyMap, 0)
Garbage == Doc("garbage", EmptyMap, EmptyMap, 0)

\* DraftData
DraftData(vals, tch, timestamp) == Doc("draft", vals, tch, timestamp)

\* JSON.stringify(draftData): a key whose value is undefined is left out
JSONStringify(draftData) ==
    Doc("json",
        [f \in {g \in DOMAIN draftData.values : draftData.values[g] # UNDEFINED} |->
            draftData.values[f]],
        draftData.touched, draftData.timestamp)

\* JSON.parse(data), for data that parses
JSONParse(data) ==
    IF data.kind = "json" THEN DraftData(data.values, data.touched, data.timestamp)
    ELSE data

\* storage.load(key): the stored string, or null
StorageLoad(st, key) == IF key \in DOMAIN st THEN st[key] ELSE NoData

\* the draft state of a form without auto-save
InitNoDrafts ==
    /\ autoSave = NoAutoSave
    /\ store = EmptyMap
    /\ draftLoaded = FALSE
    /\ saveTimers = {}
    /\ autoSaveTimer = {}
    /\ loads = 0
    /\ now = 0
    /\ mutatedAt = Absent
    /\ draftFound = FALSE
    /\ cleared = FALSE

InitEngine(cfg) ==
    /\ config = cfg
    /\ values = InitialValues(cfg)
    /\ errors = EmptyMap
    /\ touched = [f \in {} |-> FALSE]
    /\ isSubmitting = FALSE
    /\ debounceTimers = [f \in {} |-> [values |-> EmptyMap, written |-> NULL, delay |-> 0]]
    /\ blurTimers = <<>>
    /\ submits = <<>>
    /\ cascades = <<>>
    /\ timeouts = EmptyBag
    /\ mounted = TRUE
    /\ last = Step("init", "", NULL, NULL, NULL, EmptyMap, TRUE)
    /\ afterSubmit = FALSE

\* the options the hook reads: mergedConfig.validation
InitValidation(validation) ==
    LET merged == MergedValidation(validation)
    IN  /\ mode = merged.mode
        /\ debounce = merged.debounce
        /\ showErrorsOn = merged.showErrorsOn

Init ==
    /\ \E v \in ValidationConfigs : InitValidation(v)
    /\ \E cfg \in Forms : InitEngine(cfg)
    /\ InitNoDrafts

\* setFieldValue, the match cascade from the i-th key on: every touched field
\* whose matchField is fieldName is validated by the validateField of this
\* closure, whose `values` is vals, and its error is set or deleted
RECURSIVE Cascade(_, _, _, _, _, _)
Cascade(cfg, vals, tch, fieldName, i, errs) ==
    IF i > Len(cfg.order) THEN errs
    ELSE LET otherFieldName == cfg.order[i]
             error == ValidateField(cfg.fields, vals, otherFieldName)
         IN  IF cfg.fields[otherFieldName].matchField = fieldName
                  /\ IsTouched(tch, otherFieldName)
             THEN Cascade(cfg, vals, tch, fieldName, i + 1,
                      IF error = THROWN THEN errs
                      ELSE IF error # NULL THEN Put(errs, otherFieldName, error)
                      ELSE Del(errs, otherFieldName))
             ELSE Cascade(cfg, vals, tch, fieldName, i + 1, errs)

\* setFieldValue: `errors[fieldName]` of the closure, when truthy, is deleted
ClearError(errs, fieldName) ==
    IF ErrorOf(errs, fieldName) # NULL THEN Del(errs, fieldName) ELSE errs

\* the `values` the validateField of setFieldValue's closure reads: those of the
\* render that created the callback, without the update this call enqueues
ClosureValues(vals, fieldName, processedValue) == vals

\* shouldValidate without the error policy
ShouldValidateAnyPolicy(fieldName) ==
    /\ mode = "onChange"
    /\ IsTouched(touched, fieldName)

\* setFieldValue: shouldValidate
ShouldValidate(fieldName) ==
    /\ mode = "onChange"
    /\ IsTouched(touched, fieldName)
    /\ showErrorsOn # "submit"

\* the auto-save effect, deps [values, touched, config.autoSave, saveDraft]: it
\* runs again after a render that set values or touched, and after every render
\* when the config object is new each time; its cleanup clears the timer it
\* set, and it sets a timer that calls the saveDraft of this render
AutoSaveEffect(mutated) ==
    IF autoSave.configured /\ (mutated \/ autoSave.inline)
    THEN LET timer == [due |-> now + AutoSaveDebounceTime,
                       values |-> values', touched |-> touched']
         IN  /\ saveTimers' = (saveTimers \ autoSaveTimer) \cup {timer}
             /\ autoSaveTimer' = {timer}
    ELSE UNCHANGED <<saveTimers, autoSaveTimer>>

\* the load-on-mount effect, deps [config, draftLoaded, loadDraft]: it runs again
\* when draftLoaded changes, and after every render when the config object is
\* new each time; unless draftLoaded, it calls storage.load
\* `pending` are the calls that stay unresolved
MountLoadEffect(loaded, pending) ==
    IF autoSave.configured /\ ~loaded /\ autoSave.inline
    THEN /\ pending < MaxPending
         /\ loads' = pending + 1
    ELSE loads' = pending

\* a render after a state update, and the effects that follow it; `mutated`
\* says that setValues or setTouched was called, `loaded` is the new draftLoaded
Render(mutated, loaded, pending) ==
    /\ draftLoaded' = loaded
    /\ mutatedAt' = IF mutated /\ autoSave.configured THEN now ELSE mutatedAt
    /\ cleared' = IF mutated THEN FALSE ELSE cleared
    /\ AutoSaveEffect(mutated)
    /\ MountLoadEffect(loaded, pending)
    /\ UNCHANGED <<store, now, draftFound>>

\* a step that sets no state: no render, no effect
NoRender ==
    UNCHANGED <<store, draftLoaded, saveTimers, autoSaveTimer, loads, now, mutatedAt,
               draftFound, cleared>>

\* setFieldValue: debounceTime
DebounceTime(fieldConfig, formDebounce) ==
    OrElse(OrElse(FieldDebounce(fieldConfig), formDebounce), DefaultDebounce)

\* a pending setTimeout callback of setFieldValue: the field it validates and
\* the closure it runs in; the handle setTimeout returns names it
Timeout(fieldName, timer) == [field |-> fieldName, timer |-> timer]

\* setTimeout(callback, debounceTime)
SetTimeout(pending, callback) == pending (+) SetToBag({callback})

\* setFieldValue without its clearTimeout
KeepTimeout(pending, handles, fieldName) == pending

\* `if (debounceTimers.current[fieldName]) clearTimeout(debounceTimers.current[fieldName])`:
\* the timeout that the field's handle names is pending no more
ClearTimeout(pending, handles, fieldName) ==
    IF fieldName \in DOMAIN handles
    THEN pending (-) SetToBag({Timeout(fieldName, handles[fieldName])})
    ELSE pending

\* setFieldValue: the existing timer is cleared and the new timer is set
Reschedule(pending, handles, fieldName, timer) ==
    SetTimeout(ClearTimeout(pending, handles, fieldName), Timeout(fieldName, timer))

\* setFieldValue(fieldName, value)
SetFieldValue(fieldName, value) ==
    LET processedValue == FormatAuto(value, config.fields[fieldName].type)
        closure == ClosureValues(values, fieldName, processedValue)
        scheduled == ShouldValidate(fieldName)
        debounceTime == DebounceTime(config.fields[fieldName], debounce)
    IN  /\ MicrotasksDrained
        /\ values' = Put(values, fieldName, processedValue)
        /\ errors' = Cascade(config, closure, touched, fieldName, 1,
                             ClearError(errors, fieldName))
        /\ debounceTimers' =
              IF scheduled
              THEN Put(debounceTimers, fieldName,
                       [values |-> closure, written |-> processedValue,
                        delay |-> debounceTime])
              ELSE debounceTimers
        /\ timeouts' =
              IF scheduled
              THEN Reschedule(timeouts, debounceTimers, fieldName,
                              [values |-> closure, written |-> processedValue,
                               delay |-> debounceTime])
              ELSE timeouts
        /\ last' = Step("setValue", fieldName, NULL, NULL, NULL, EmptyMap, scheduled)
        /\ afterSubmit' = FALSE
        /\ UNCHANGED <<config, mounted, cascades, autoSave, mode, debounce, showErrorsOn,
                       touched, isSubmitting,
                       blurTimers, submits>>
        /\ Render(TRUE, draftLoaded, loads)

\* the cascade callbacks that setFieldValue starts, from the i-th key on: the
\* async callback of every touched field whose matchField is fieldName has called
\* the validateField of this closure and is suspended at its `await`, holding
\* the promise's outcome
RECURSIVE CascadeCalls(_, _, _, _, _)
CascadeCalls(cfg, vals, tch, fieldName, i) ==
    IF i > Len(cfg.order) THEN <<>>
    ELSE LET otherFieldName == cfg.order[i]
         IN  IF cfg.fields[otherFieldName].matchField = fieldName
                  /\ IsTouched(tch, otherFieldName)
             THEN <<[field |-> otherFieldName,
                     error |-> ValidateField(cfg.fields, vals, otherFieldName)]>>
                  \o CascadeCalls(cfg, vals, tch, fieldName, i + 1)
             ELSE CascadeCalls(cfg, vals, tch, fieldName, i + 1)

\* setFieldValue(fieldName, value) up to its return: the cascade callbacks have
\* been started and have not resumed
SetFieldValueReturns(fieldName, value) ==
    LET processedValue == FormatAuto(value, config.fields[fieldName].type)
        closure == ClosureValues(values, fieldName, processedValue)
        scheduled == ShouldValidate(fieldName)
        debounceTime == DebounceTime(config.fields[fieldName], debounce)
    IN  /\ MicrotasksDrained
        /\ values' = Put(values, fieldName, processedValue)
        /\ errors' = ClearError(errors, fieldName)
        /\ cascades' = CascadeCalls(config, closure, touched, fieldName, 1)
        /\ debounceTimers' =
              IF scheduled
              THEN Put(debounceTimers, fieldName,
                       [values |-> closure, written |-> processedValue,
                        delay |-> debounceTime])
              ELSE debounceTimers
        /\ timeouts' =
              IF scheduled
              THEN Reschedule(timeouts, debounceTimers, fieldName,
                              [values |-> closure, written |-> processedValue,
                               delay |-> debounceTime])
              ELSE timeouts
        /\ last' = Step("setValue", fieldName, NULL, NULL, NULL, EmptyMap, scheduled)
        /\ afterSubmit' = FALSE
        /\ UNCHANGED <<config, mounted, autoSave, mode, debounce, showErrorsOn,
                       touched, isSubmitting, blurTimers, submits>>
        /\ Render(TRUE, draftLoaded, loads)

\* the oldest suspended cascade callback resumes: setErrors with the outcome
CascadeResumes ==
    /\ cascades # <<>>
    /\ LET call == Head(cascades)
       IN  /\ errors' = IF call.error = THROWN THEN errors
                        ELSE IF call.error # NULL
                        THEN Put(errors, call.field, call.error)
                        ELSE Del(errors, call.field)
           /\ last' = Step("cascade", call.field, NULL, NULL, call.error, EmptyMap,
                           TRUE)
    /\ cascades' = Tail(cascades)
    /\ UNCHANGED <<config, mounted, timeouts, autoSave, mode, debounce, showErrorsOn,
                   values, touched, isSubmitting, debounceTimers, blurTimers,
                   submits, afterSubmit>>
    /\ Render(FALSE, draftLoaded, loads)

\* a timer callback's `if (error) setErrors(prev => ({ ...prev, [fieldName]: error }))`
RecordError(errs, fieldName, error) ==
    IF error # NULL /\ error # THROWN THEN Put(errs, fieldName, error) ELSE errs

\* a state update that a callback makes after the component has unmounted is
\* dropped: there is no state to set and no render
Rendered(error) == mounted /\ error # NULL /\ error # THROWN

\* a pending setTimeout callback of setFieldValue for fieldName runs; the
\* handle of a timer that has run names no pending timeout, and the model
\* drops it from debounceTimers
FireDebounce(fieldName) ==
    \E callback \in BagToSet(timeouts) :
    LET timer == callback.timer
        error == ValidateField(config.fields, timer.values, fieldName)
    IN  /\ callback.field = fieldName
        /\ MicrotasksDrained
        /\ errors' = IF mounted THEN RecordError(errors, fieldName, error) ELSE errors
        /\ timeouts' = timeouts (-) SetToBag({callback})
        /\ debounceTimers' =
              IF fieldName \in DOMAIN debounceTimers /\ debounceTimers[fieldName] = timer
              THEN Del(debounceTimers, fieldName)
              ELSE debounceTimers
        /\ last' = Step("debounce", fieldName, ValueOf(timer.values, fieldName),
                        timer.written, error, EmptyMap, timer.values = values)
        /\ UNCHANGED <<config, mounted, cascades, autoSave, mode, debounce, showErrorsOn,
                       values, touched, isSubmitting,
                       blurTimers, submits, afterSubmit>>
        /\ IF Rendered(error) THEN Render(FALSE, draftLoaded, loads) ELSE NoRender

\* setFieldError(fieldName, error)
SetFieldError(fieldName, error) ==
    /\ MicrotasksDrained
    /\ errors' = Put(errors, fieldName, error)
    /\ last' = Step("setError", fieldName, NULL, NULL, error, EmptyMap, TRUE)
    /\ afterSubmit' = FALSE
    /\ UNCHANGED <<config, mounted, timeouts, cascades, autoSave, mode, debounce, showErrorsOn,
                   values, touched, isSubmitting,
                   debounceTimers, blurTimers, submits>>
    /\ Render(FALSE, draftLoaded, loads)

\* setFieldTouched(fieldName, isTouched)
SetFieldTouched(fieldName, isTouched) ==
    /\ MicrotasksDrained
    /\ touched' = Put(touched, fieldName, isTouched)
    /\ IF isTouched /\ mode = "onBlur"
       THEN /\ Len(blurTimers) < MaxPending
            /\ blurTimers' = Append(blurTimers, [field |-> fieldName, values |-> values])
       ELSE UNCHANGED blurTimers
    /\ last' = Step("setTouched", fieldName, NULL, NULL, NULL, EmptyMap, isTouched)
    /\ afterSubmit' = FALSE
    /\ UNCHANGED <<config, mounted, timeouts, cascades, autoSave, mode, debounce, showErrorsOn,
                   values, errors, isSubmitting,
                   debounceTimers, submits>>
    /\ Render(TRUE, draftLoaded, loads)

\* the oldest setTimeout(..., 0) callback of setFieldTouched runs
FireBlur ==
    /\ MicrotasksDrained
    /\ blurTimers # <<>>
    /\ LET timer == Head(blurTimers)
           error == ValidateField(config.fields, timer.values, timer.field)
       IN  /\ errors' = IF mounted THEN RecordError(errors, timer.field, error)
                        ELSE errors
           /\ last' = Step("blur", timer.field, ValueOf(timer.values, timer.field),
                           NULL, error, EmptyMap, timer.values = values)
    /\ blurTimers' = Tail(blurTimers)
    /\ UNCHANGED <<config, mounted, timeouts, cascades, autoSave, mode, debounce, showErrorsOn,
                   values, touched, isSubmitting,
                   debounceTimers, submits, afterSubmit>>
    /\ IF Rendered(ValidateField(config.fields, Head(blurTimers).values,
                                 Head(blurTimers).field))
       THEN Render(FALSE, draftLoaded, loads) ELSE NoRender

\* resetForm() without its setTouched({})
ResetFormKeepsTouched ==
    /\ MicrotasksDrained
    /\ values' = InitialValues(config)
    /\ errors' = EmptyMap
    /\ isSubmitting' = FALSE
    /\ last' = Step("reset", "", NULL, NULL, NULL, EmptyMap, TRUE)
    /\ afterSubmit' = FALSE
    /\ UNCHANGED <<config, mounted, timeouts, cascades, autoSave, mode, debounce, showErrorsOn,
                   touched, debounceTimers, blurTimers, submits>>
    /\ Render(TRUE, draftLoaded, loads)

\* resetForm()
ResetForm ==
    /\ MicrotasksDrained
    /\ values' = InitialValues(config)
    /\ errors' = EmptyMap
    /\ touched' = [f \in {} |-> FALSE]
    /\ isSubmitting' = FALSE
    /\ last' = Step("reset", "", NULL, NULL, NULL, EmptyMap, TRUE)
    /\ afterSubmit' = FALSE
    /\ UNCHANGED <<config, mounted, timeouts, cascades, autoSave, mode, debounce, showErrorsOn,
                   debounceTimers, blurTimers, submits>>
    /\ Render(TRUE, draftLoaded, loads)

\* submitForm(), to its `await validateForm()`
SubmitStart ==
    /\ MicrotasksDrained
    /\ isSubmitting' = TRUE
    /\ touched' = [f \in Range(config.order) |-> TRUE]
    /\ submits' = Append(submits, [values |-> values])
    /\ last' = Step("submit", "", NULL, NULL, NULL, EmptyMap, TRUE)
    /\ afterSubmit' = FALSE
    /\ UNCHANGED <<config, mounted, timeouts, cascades, autoSave, mode, debounce, showErrorsOn,
                   values, errors, debounceTimers,
                   blurTimers>>
    /\ Render(TRUE, draftLoaded, loads)

\* setErrors merging formErrors into the previous errors instead of replacing them
SubmitErrorsMerged(errs, formErrors) ==
    IF formErrors.threw THEN errs
    ELSE [f \in DOMAIN errs \cup DOMAIN formErrors.errors |->
             IF f \in DOMAIN formErrors.errors THEN formErrors.errors[f] ELSE errs[f]]

\* submitForm() from the `await` on: when validateForm rejected, only `finally` runs
SubmitErrors(errs, formErrors) == IF formErrors.threw THEN errs ELSE formErrors.errors

\* setIsSubmitting(false) after the try block instead of in `finally`
SubmitNoFinally(formErrors) == formErrors.threw

\* isSubmitting once submitForm has ended: `finally { setIsSubmitting(false) }`
\* runs whether validateForm returned or rejected
SubmitFinally(formErrors) == FALSE

SubmitFinish ==
    /\ submits # <<>>
    /\ LET formErrors == ValidateForm(config, Head(submits).values)
       IN  /\ errors' = SubmitErrors(errors, formErrors)
           /\ isSubmitting' = SubmitFinally(formErrors)
           /\ last' = Step("submitted", "", NULL, NULL, NULL, formErrors.errors,
                           ~formErrors.threw)
           /\ afterSubmit' = ~formErrors.threw
    /\ submits' = Tail(submits)
    /\ UNCHANGED <<config, mounted, timeouts, cascades, autoSave, mode, debounce, showErrorsOn,
                   values, touched, debounceTimers,
                   blurTimers>>
    /\ Render(FALSE, draftLoaded, loads)

\* errors[fieldName] as the caller reads it: undefined when there is no entry
ErrorEntry(errs, fieldName) ==
    IF fieldName \in DOMAIN errs THEN errs[fieldName] ELSE UNDEFINED

\* a binding that hands out errors[fieldName] whether or not the field is touched
FieldPropsUnfiltered(fieldName) ==
    [value |-> IF Truthy(ValueOf(values, fieldName)) THEN values[fieldName] ELSE <<>>,
     error |-> ErrorEntry(errors, fieldName),
     touched |-> IsTouched(touched, fieldName)]

\* getFieldProps(fieldName): value, error and touched of the binding
getFieldProps(fieldName) ==
    [value |-> IF Truthy(ValueOf(values, fieldName)) THEN values[fieldName] ELSE <<>>,
     error |-> IF IsTouched(touched, fieldName)
               THEN ErrorEntry(errors, fieldName) ELSE UNDEFINED,
     touched |-> IsTouched(touched, fieldName)]

\* a validateField that stores its result in errors
CallValidateFieldRecording(fieldName) ==
    /\ MicrotasksDrained
    /\ errors' = RecordError(errors, fieldName,
                             ValidateField(config.fields, values, fieldName))
    /\ last' = Step("validateField", fieldName, ValueOf(values, fieldName), NULL,
                    ValidateField(config.fields, values, fieldName), EmptyMap, TRUE)
    /\ afterSubmit' = FALSE
    /\ UNCHANGED <<config, mounted, timeouts, cascades, autoSave, mode, debounce, showErrorsOn,
                   values, touched, isSubmitting,
                   debounceTimers, blurTimers, submits>>
    /\ NoRender

\* the caller awaits validateField(fieldName)
CallValidateField(fieldName) ==
    /\ MicrotasksDrained
    /\ last' = Step("validateField", fieldName, ValueOf(values, fieldName), NULL,
                    ValidateField(config.fields, values, fieldName), EmptyMap, TRUE)
    /\ afterSubmit' = FALSE
    /\ UNCHANGED <<config, mounted, timeouts, cascades, autoSave, mode, debounce, showErrorsOn,
                   values, errors, touched, isSubmitting,
                   debounceTimers, blurTimers, submits>>
    /\ NoRender

\* the caller awaits validateForm()
CallValidateForm ==
    /\ MicrotasksDrained
    /\ LET formErrors == ValidateForm(config, values)
       IN  last' = Step("validateForm", "", NULL, NULL, NULL, formErrors.errors,
                        ~formErrors.threw)
    /\ afterSubmit' = FALSE
    /\ UNCHANGED <<config, mounted, timeouts, cascades, autoSave, mode, debounce, showErrorsOn,
                   values, errors, touched, isSubmitting,
                   debounceTimers, blurTimers, submits>>
    /\ NoRender

Next ==
    \/ \E f \in FieldNames : \E v \in RawInputs(f) : SetFieldValue(f, v)
    \/ \E f \in FieldNames : FireDebounce(f)
    \/ \E f \in FieldNames : SetFieldError(f, ServerError)
    \/ \E f \in FieldNames : \E b \in BOOLEAN : SetFieldTouched(f, b)
    \/ FireBlur
    \/ ResetForm
    \/ SubmitStart
    \/ SubmitFinish

Spec == Init /\ [][Next]_vars

\* submitForm under the scheduling of the event loop: a continuation that is
\* ready to run does run
FairSpec == Spec /\ WF_vars(SubmitFinish)

-----------------------------------------------------------------------------
(* Drafts: saveDraft, loadDraft, clearDraft, hasDraft, the auto-save timer   *)
(* and the load on mount, for a form of one optional text field              *)

\* the history record of a draft operation: the DraftData it handled, and
\* whether the storage adapter or the stored data failed it
DraftStep(op, draft, ret, failed) ==
    Step(op, "", NULL, NULL, ret, EmptyMap, ~failed) @@ [draft |-> draft, failed |-> failed]

\* a saveDraft that serializes the values and touched of the first render
SaveDraftOfFirstRender(vals, tch, ok) ==
    IF autoSave.configured /\ ok
    THEN Put(store, AutoSaveKey,
             JSONStringify(DraftData(InitialValues(config), EmptyMap, now)))
    ELSE store

\* saveDraft() of a render whose values and touched are vals and tch:
\* storage.save(key, JSON.stringify({ values, touched, timestamp: Date.now() }));
\* `ok` says whether the adapter resolves, a rejection is caught and logged
SaveDraftOf(vals, tch, ok) ==
    IF autoSave.configured /\ ok
    THEN Put(store, AutoSaveKey, JSONStringify(DraftData(vals, tch, now)))
    ELSE store

\* saveDraft(), called by the caller
SaveDraft ==
    /\ MicrotasksDrained
    /\ \E ok \in BOOLEAN :
          /\ store' = SaveDraftOf(values, touched, ok)
          /\ last' = DraftStep("saveDraft", NoData, NULL, ~ok)
    /\ afterSubmit' = FALSE
    /\ UNCHANGED <<config, mounted, timeouts, cascades, autoSave, mode, debounce, showErrorsOn,
                   values, errors,
                   touched, isSubmitting, debounceTimers, blurTimers, submits,
                   draftLoaded, saveTimers, autoSaveTimer, loads, now, mutatedAt,
                   draftFound, cleared>>

\* the auto-save timer fires: the saveDraft of the render that set it runs
FireAutoSave ==
    /\ MicrotasksDrained
    /\ \E timer \in saveTimers : \E ok \in BOOLEAN :
          /\ timer.due <= now
          /\ store' = SaveDraftOf(timer.values, timer.touched, ok)
          /\ saveTimers' = saveTimers \ {timer}
          /\ last' = DraftStep("autoSave", NoData, NULL, ~ok)
    /\ UNCHANGED <<config, mounted, timeouts, cascades, autoSave, mode, debounce, showErrorsOn,
                   values, errors,
                   touched, isSubmitting, debounceTimers, blurTimers, submits,
                   draftLoaded, autoSaveTimer, loads, now, mutatedAt, draftFound, cleared,
                   afterSubmit>>

\* clearDraft(): storage.remove(key); a rejection is caught and logged
RemoveDraft(ok) == IF autoSave.configured /\ ok THEN Del(store, AutoSaveKey) ELSE store

\* the history of clearDraft(): storage.remove has been called and has resolved
Removed(ok) == (autoSave.configured /\ ok) \/ cleared

\* clearDraft(), called by the caller
ClearDraft ==
    /\ MicrotasksDrained
    /\ \E ok \in BOOLEAN :
          /\ store' = RemoveDraft(ok)
          /\ cleared' = Removed(ok)
          /\ last' = DraftStep("clearDraft", NoData, NULL, ~ok)
    /\ afterSubmit' = FALSE
    /\ UNCHANGED <<config, mounted, timeouts, cascades, autoSave, mode, debounce, showErrorsOn,
                   values, errors,
                   touched, isSubmitting, debounceTimers, blurTimers, submits,
                   draftLoaded, saveTimers, autoSaveTimer, loads, now, mutatedAt,
                   draftFound>>

\* what hasDraft() resolves to: data !== null, and false when storage.load rejects
HasDraftResult(ok) ==
    IF autoSave.configured /\ ok /\ StorageLoad(store, AutoSaveKey).kind # "null"
    THEN <<"true">> ELSE <<"false">>

\* hasDraft(), called by the caller
HasDraft ==
    /\ MicrotasksDrained
    /\ \E ok \in BOOLEAN :
          last' = DraftStep("hasDraft", NoData, HasDraftResult(ok), ~ok)
    /\ afterSubmit' = FALSE
    /\ UNCHANGED <<config, mounted, timeouts, cascades, autoSave, mode, debounce, showErrorsOn,
                   values, errors,
                   touched, isSubmitting, debounceTimers, blurTimers, submits, store,
                   draftLoaded, saveTimers, autoSaveTimer, loads, now, mutatedAt,
                   draftFound, cleared>>

\* isExpired with >= for >
IsExpiredInclusive(draft) ==
    /\ OrElse(autoSave.expirationDays, 0) # 0
    /\ draft.kind = "draft"
    /\ now - draft.timestamp >= autoSave.expirationDays * DayMs

\* loadDraft: isExpired.  Without expirationDays, or with 0, there is no check;
\* a draft without a timestamp gives NaN > expirationMs, which is false
IsExpired(draft) ==
    /\ OrElse(autoSave.expirationDays, 0) # 0
    /\ draft.kind = "draft"
    /\ now - draft.timestamp > autoSave.expirationDays * DayMs

\* draftData.values and draftData.touched; of an object without these keys they
\* are undefined, which the model keeps as the map without keys
DraftValues(draft) == IF draft.kind = "draft" THEN draft.values ELSE EmptyMap
DraftTouched(draft) == IF draft.kind = "draft" THEN draft.touched ELSE EmptyMap

\* loadDraft(draft): nothing for no draft; clearDraft() for an expired one;
\* otherwise setValues, setTouched, setDraftLoaded(true)
\* `ok` says whether storage.remove resolves, `pending` are the storage.load
\* calls that stay unresolved
ApplyDraft(draft, ok, pending) ==
    IF draft.kind = "null"
    THEN /\ loads' = pending
         /\ UNCHANGED <<values, touched, store, draftLoaded, saveTimers,
                        autoSaveTimer, now, mutatedAt, draftFound, cleared>>
    ELSE IF IsExpired(draft)
    THEN /\ store' = RemoveDraft(ok)
         /\ cleared' = Removed(ok)
         /\ loads' = pending
         /\ UNCHANGED <<values, touched, draftLoaded, saveTimers, autoSaveTimer,
                        now, mutatedAt, draftFound>>
    ELSE /\ values' = DraftValues(draft)
         /\ touched' = DraftTouched(draft)
         /\ Render(TRUE, TRUE, pending)

\* the values and touched of the drafts the caller has at hand
SavedValues == [name |-> <<"A", "b">>]
SavedTouched == [name |-> TRUE]

\* the oldest draft the caller hands to loadDraft, in days
MaxAgeDays == 2

\* a draft whose values and touched have no key for the field `name`
PartialDraft == DraftData(EmptyMap, EmptyMap, now)

\* what the caller gives loadDraft: nothing, a draft of 0 to MaxAgeDays days,
\* a draft that omits a declared field, or what the store holds
DraftInputs ==
    ({NoData, PartialDraft}
     \cup {DraftData(SavedValues, SavedTouched, now - days * DayMs) : days \in 0..MaxAgeDays}
     \cup {JSONParse(StorageLoad(store, AutoSaveKey))}) \ {Garbage}

\* loadDraft(draft), called by the caller
LoadDraft(draft) ==
    /\ MicrotasksDrained
    /\ \E ok \in BOOLEAN :
          /\ ApplyDraft(draft, ok, loads)
          /\ last' = DraftStep("loadDraft", draft,
                               IF draft.kind # "null" /\ IsExpired(draft)
                               THEN <<"clearDraft">> ELSE NULL,
                               draft.kind = "object")
    /\ afterSubmit' = FALSE
    /\ UNCHANGED <<config, mounted, timeouts, cascades, autoSave, mode, debounce, showErrorsOn, errors,
                   isSubmitting, debounceTimers, blurTimers, submits>>

\* loadInitialDraft from its `await storage.load(key)` on: a rejection and a
\* JSON.parse error are caught; data that parses goes to onDraftFound when
\* there is one, else to loadDraft
LoadResolves ==
    /\ MicrotasksDrained
    /\ loads > 0
    /\ \E ok \in BOOLEAN : \E okRemove \in BOOLEAN :
          LET data == StorageLoad(store, AutoSaveKey)
              draft == JSONParse(data)
          IN  IF ~ok \/ data.kind \in {"null", "garbage"}
              THEN /\ last' = DraftStep("mountLoad", data, NULL,
                                        ~ok \/ data.kind = "garbage")
                   /\ loads' = loads - 1
                   /\ UNCHANGED <<values, touched, store, draftLoaded, saveTimers,
                                  autoSaveTimer, now, mutatedAt, draftFound, cleared>>
              ELSE IF autoSave.onDraftFound
              THEN /\ last' = DraftStep("mountLoad", draft, <<"onDraftFound">>,
                                        draft.kind = "object")
                   /\ draftFound' = TRUE
                   /\ loads' = loads - 1
                   /\ UNCHANGED <<values, touched, store, draftLoaded, saveTimers,
                                  autoSaveTimer, now, mutatedAt, cleared>>
              ELSE /\ last' = DraftStep("mountLoad", draft,
                                        IF IsExpired(draft) THEN <<"clearDraft">>
                                        ELSE <<"loadDraft">>,
                                        draft.kind = "object")
                   /\ ApplyDraft(draft, okRemove, loads - 1)
    /\ UNCHANGED <<config, mounted, timeouts, cascades, autoSave, mode, debounce, showErrorsOn, errors,
                   isSubmitting, debounceTimers, blurTimers, submits, afterSubmit>>

\* the key and the draft of another form that uses the same storage adapter
OtherKey == "form2-draft"
OtherDraft == DraftData([name |-> <<"B">>], [name |-> TRUE], 0)

\* the adapter's save and remove: store.set(key, data), store.delete(key)
StorageSave(st, key, data) == Put(st, key, data)
StorageRemove(st, key) == Del(st, key)

\* the other form saves its draft
OtherFormSaves ==
    /\ MicrotasksDrained
    /\ store' = StorageSave(store, OtherKey, JSONStringify(OtherDraft))
    /\ last' = DraftStep("otherSave", NoData, NULL, FALSE)
    /\ UNCHANGED <<config, mounted, timeouts, cascades, autoSave, mode, debounce, showErrorsOn,
                   values, errors,
                   touched, isSubmitting, debounceTimers, blurTimers, submits,
                   draftLoaded, saveTimers, autoSaveTimer, loads, now, mutatedAt,
                   draftFound, cleared, afterSubmit>>

\* the other form removes its draft
OtherFormRemoves ==
    /\ MicrotasksDrained
    /\ store' = StorageRemove(store, OtherKey)
    /\ last' = DraftStep("otherRemove", NoData, NULL, FALSE)
    /\ UNCHANGED <<config, mounted, timeouts, cascades, autoSave, mode, debounce, showErrorsOn,
                   values, errors,
                   touched, isSubmitting, debounceTimers, blurTimers, submits,
                   draftLoaded, saveTimers, autoSaveTimer, loads, now, mutatedAt,
                   draftFound, cleared, afterSubmit>>

\* the step of the clock: half the auto-save debounce
TickMs == DefaultAutoSaveDebounce \div 2

\* how far the clock of the model runs, in ticks
MaxTicks == 3

\* time passes; a timer that is due fires first
Tick ==
    /\ now < MaxTicks * TickMs
    /\ \A timer \in saveTimers : timer.due > now
    /\ now' = now + TickMs
    /\ last' = Step("tick", "", NULL, NULL, NULL, EmptyMap, TRUE)
    /\ UNCHANGED <<config, mounted, timeouts, cascades, autoSave, mode, debounce, showErrorsOn,
                   values, errors,
                   touched, isSubmitting, debounceTimers, blurTimers, submits, store,
                   draftLoaded, saveTimers, autoSaveTimer, loads, mutatedAt,
                   draftFound, cleared, afterSubmit>>

\* a form with one optional text field
NoteForm ==
    [order |-> <<"name">>,
     fields |-> [name |-> Field("text", FALSE, 0, 0, "none", "", NULL, "none")]]

\* auto-save with the documentation's debounce of 1000 ms: without
\* expirationDays and with 0, and for an expiration of 1 day with and without
\* onDraftFound, with the config object kept between renders or written inline
AutoSaveConfigs ==
    {AutoSave(TRUE, DefaultAutoSaveDebounce, e, FALSE, FALSE) : e \in {Absent, 0}}
    \cup {AutoSave(TRUE, DefaultAutoSaveDebounce, 1, cb, inl) :
            cb \in BOOLEAN, inl \in BOOLEAN}

\* what the store holds at mount: nothing, a draft saved just now or
\* MaxAgeDays days ago, '{}', or a string that does not parse
InitialStores ==
    {EmptyMap}
    \cup {Put(EmptyMap, AutoSaveKey,
              JSONStringify(DraftData(SavedValues, SavedTouched, 0 - days * DayMs))) :
          days \in {0, MaxAgeDays}}
    \cup {Put(EmptyMap, AutoSaveKey, data) : data \in {EmptyObject, Garbage}}

\* the state after the first render and its effects: the auto-save effect has
\* set its timer and the load-on-mount effect has called storage.load
InitMounted(configs, stores) ==
    /\ InitValidation(Validation(TRUE, "onSubmit", Absent, "touched"))
    /\ InitEngine(NoteForm)
    /\ autoSave \in configs
    /\ store \in stores
    /\ draftLoaded = FALSE
    /\ saveTimers = {[due |-> AutoSaveDebounceTime, values |-> InitialValues(NoteForm),
                      touched |-> EmptyMap]}
    /\ autoSaveTimer = saveTimers
    /\ loads = 1
    /\ now = 0
    /\ mutatedAt = Absent
    /\ draftFound = FALSE
    /\ cleared = FALSE

\* the draft operations, while the auto-save timer is pending
InitDrafts == InitMounted(AutoSaveConfigs, InitialStores)

NextDrafts ==
    \/ \E f \in FieldNames : \E v \in RawInputs(f) : SetFieldValue(f, v)
    \/ \E f \in FieldNames : SetFieldTouched(f, TRUE)
    \/ \E f \in FieldNames : SetFieldError(f, ServerError)
    \/ SaveDraft
    \/ ClearDraft
    \/ HasDraft
    \/ \E draft \in DraftInputs : LoadDraft(draft)
    \/ LoadResolves
    \/ OtherFormSaves
    \/ OtherFormRemoves

DraftSpec == InitDrafts /\ [][NextDrafts]_vars

\* the auto-save timer as time passes, on an empty store, with the config
\* object kept between renders or written inline
InitAutoSave ==
    InitMounted({AutoSave(TRUE, DefaultAutoSaveDebounce, Absent, FALSE, inl) :
                    inl \in BOOLEAN},
                {EmptyMap})

NextAutoSave ==
    \/ \E f \in FieldNames : \E v \in RawInputs(f) : SetFieldValue(f, v)
    \/ \E f \in FieldNames : SetFieldTouched(f, TRUE)
    \/ \E f \in FieldNames : SetFieldError(f, ServerError)
    \/ FireAutoSave
    \/ LoadResolves
    \/ Tick

AutoSaveSpec == InitAutoSave /\ [][NextAutoSave]_vars

-----------------------------------------------------------------------------
(* Calls in one task: a handler that calls submitForm() and, without         *)
(* awaiting it, calls submitForm() or resetForm(); the continuations of the  *)
(* suspended submits run afterwards, oldest first                            *)

\* submitForm calls the model keeps suspended at a time
MaxSubmits == 2

\* submitForm() called while an earlier call is suspended at its `await`; the
\* callback is that of the same render
SubmitAgain ==
    /\ submits # <<>>
    /\ Len(submits) < MaxSubmits
    /\ cascades = <<>>
    /\ isSubmitting' = TRUE
    /\ touched' = [f \in Range(config.order) |-> TRUE]
    /\ submits' = Append(submits, [values |-> Head(submits).values])
    /\ last' = Step("submit", "", NULL, NULL, NULL, EmptyMap, TRUE)
    /\ afterSubmit' = FALSE
    /\ UNCHANGED <<config, mounted, timeouts, cascades, autoSave, mode, debounce,
                   showErrorsOn, values, errors, debounceTimers, blurTimers>>
    /\ Render(TRUE, draftLoaded, loads)

\* resetForm() called while a submitForm call is suspended at its `await`
ResetWhileSubmitting ==
    /\ submits # <<>>
    /\ cascades = <<>>
    /\ values' = InitialValues(config)
    /\ errors' = EmptyMap
    /\ touched' = [f \in {} |-> FALSE]
    /\ isSubmitting' = FALSE
    /\ last' = Step("reset", "", NULL, NULL, NULL, EmptyMap, TRUE)
    /\ afterSubmit' = FALSE
    /\ UNCHANGED <<config, mounted, timeouts, cascades, autoSave, mode, debounce,
                   showErrorsOn, debounceTimers, blurTimers, submits>>
    /\ Render(TRUE, draftLoaded, loads)

InitOneTask ==
    /\ InitValidation(NoValidation)
    /\ \E cfg \in {SignupForm, ContactForm} : InitEngine(cfg)
    /\ InitNoDrafts

NextOneTask ==
    \/ \E f \in FieldNames : \E v \in RawInputs(f) : SetFieldValue(f, v)
    \/ \E f \in FieldNames : SetFieldTouched(f, TRUE)
    \/ SubmitStart
    \/ SubmitAgain
    \/ ResetWhileSubmitting
    \/ SubmitFinish

OneTaskSpec == InitOneTask /\ [][NextOneTask]_vars

-----------------------------------------------------------------------------
(* Draft recovery: the form mounts on a store that holds a draft, with and   *)
(* without onDraftFound; the caller edits, submits and clears the draft      *)
(* while the auto-save timer runs and the mount-time load resolves           *)

\* the store at mount: a draft saved just before
StoredDraft ==
    Put(EmptyMap, AutoSaveKey, JSONStringify(DraftData(SavedValues, SavedTouched, 0)))

InitRecovery ==
    InitMounted({AutoSave(TRUE, DefaultAutoSaveDebounce, Absent, cb, FALSE) :
                    cb \in BOOLEAN},
                {StoredDraft})

NextRecovery ==
    \/ \E f \in FieldNames : \E v \in RawInputs(f) : SetFieldValue(f, v)
    \/ SubmitStart
    \/ SubmitFinish
    \/ ClearDraft
    \/ FireAutoSave
    \/ LoadResolves
    \/ Tick

RecoverySpec == InitRecovery /\ [][NextRecovery]_vars

-----------------------------------------------------------------------------
(* Unmounting: the contact form with auto-save, in the modes onChange and    *)
(* onBlur, with its validation timers and its auto-save timer, and the       *)
(* cleanup of the effects                                                    *)

\* the timeouts that the handles of debounceTimers.current name
HandledTimeouts(handles) == SetToBag({Timeout(f, handles[f]) : f \in DOMAIN handles})

\* an unmount whose cleanup leaves the timers of debounceTimers.current alone
KeepTimeouts(pending, handles) == pending

\* the cleanup of the effect with no dependencies:
\* Object.values(debounceTimers.current).forEach(timer => clearTimeout(timer))
ClearTimeouts(pending, handles) == pending (-) HandledTimeouts(handles)

\* the component unmounts: the cleanup of every effect runs; that of the
\* auto-save effect clears autoSaveTimer.current
Unmount ==
    /\ mounted
    /\ MicrotasksDrained
    /\ mounted' = FALSE
    /\ timeouts' = ClearTimeouts(timeouts, debounceTimers)
    /\ debounceTimers' = [f \in {} |-> debounceTimers[f]]
    /\ saveTimers' = IF autoSave.configured THEN saveTimers \ autoSaveTimer ELSE saveTimers
    /\ last' = Step("unmount", "", NULL, NULL, NULL, EmptyMap, TRUE)
    /\ afterSubmit' = FALSE
    /\ UNCHANGED <<config, cascades, autoSave, mode, debounce, showErrorsOn, values,
                   errors, touched, isSubmitting, blurTimers, submits, store,
                   draftLoaded, autoSaveTimer, loads, now, mutatedAt, draftFound, cleared>>

\* the state once the mount-time load has found the store empty
InitUnmount ==
    /\ \E v \in {NoValidation, Validation(TRUE, "onBlur", Absent, "touched")} :
          InitValidation(v)
    /\ InitEngine(ContactForm)
    /\ autoSave = AutoSave(TRUE, DefaultAutoSaveDebounce, Absent, FALSE, FALSE)
    /\ store = EmptyMap
    /\ draftLoaded = FALSE
    /\ saveTimers = {[due |-> AutoSaveDebounceTime, values |-> InitialValues(ContactForm),
                      touched |-> EmptyMap]}
    /\ autoSaveTimer = saveTimers
    /\ loads = 0
    /\ now = 0
    /\ mutatedAt = Absent
    /\ draftFound = FALSE
    /\ cleared = FALSE

NextUnmount ==
    \/ mounted /\ \E f \in FieldNames : \E v \in RawInputs(f) : SetFieldValue(f, v)
    \/ mounted /\ \E f \in FieldNames : SetFieldTouched(f, TRUE)
    \/ \E f \in FieldNames : FireDebounce(f)
    \/ FireBlur
    \/ FireAutoSave
    \/ Tick
    \/ Unmount

UnmountSpec == InitUnmount /\ [][NextUnmount]_vars

-----------------------------------------------------------------------------
(* When validation is scheduled: the signup form with field-level debounce   *)
(* overrides and the contact form, under every trigger mode and error        *)
(* policy, with setFieldValue, setFieldTouched, setFieldError and the timers *)

FieldDebounceMs == 100
FormDebounceMs == 500

\* { ...fieldConfig, debounce: d }
WithDebounce(fieldConfig, d) == fieldConfig @@ [debounce |-> d]

\* the signup form: the password waits 100 ms, its confirmation asks for no delay
AccountForm ==
    [order |-> SignupForm.order,
     fields |->
        [password |-> WithDebounce(SignupForm.fields.password, FieldDebounceMs),
         confirmPassword |-> WithDebounce(SignupForm.fields.confirmPassword, 0)]]

SchedulingModes == {"onChange", "onBlur", "onSubmit"}
SchedulingPolicies == {"immediate", "touched", "submit"}

\* no validation object; every mode with every policy; form-level delays of 0
\* and 500 ms; and a validation object with showErrorsOn alone, or debounce alone
SchedulingConfigs ==
    {NoValidation}
    \cup {Validation(TRUE, m, Absent, s) : m \in SchedulingModes, s \in SchedulingPolicies}
    \cup {Validation(TRUE, "onChange", d, "touched") : d \in {0, FormDebounceMs}}
    \cup {Validation(TRUE, "#undefined", Absent, "touched"),
          Validation(TRUE, "#undefined", FormDebounceMs, "#undefined")}

\* what setFieldError is given: a message, or the empty string
ErrorInputs == {ServerError, NULL}

InitScheduling ==
    /\ \E v \in SchedulingConfigs : InitValidation(v)
    /\ \E cfg \in {AccountForm, ContactForm} : InitEngine(cfg)
    /\ InitNoDrafts

NextScheduling ==
    \/ \E f \in FieldNames : \E v \in RawInputs(f) : SetFieldValue(f, v)
    \/ \E f \in FieldNames : FireDebounce(f)
    \/ \E f \in FieldNames : \E e \in ErrorInputs : SetFieldError(f, e)
    \/ \E f \in FieldNames : \E b \in BOOLEAN : SetFieldTouched(f, b)
    \/ FireBlur

SchedulingSpec == InitScheduling /\ [][NextScheduling]_vars

-----------------------------------------------------------------------------
(* setFieldValue step by step: the call up to its return, then the cascade  *)
(* callbacks it started, then the timers; on the signup form with the       *)
(* default validation options                                               *)

InitHandler ==
    /\ InitValidation(NoValidation)
    /\ InitEngine(SignupForm)
    /\ InitNoDrafts

NextHandler ==
    \/ \E f \in FieldNames : \E v \in RawInputs(f) : SetFieldValueReturns(f, v)
    \/ CascadeResumes
    \/ \E f \in FieldNames : FireDebounce(f)
    \/ \E f \in FieldNames : SetFieldError(f, ServerError)
    \/ \E f \in FieldNames : \E b \in BOOLEAN : SetFieldTouched(f, b)

HandlerSpec == InitHandler /\ [][NextHandler]_vars

-----------------------------------------------------------------------------
(* The formatters: a form with one field of any type, whose value the       *)
(* caller writes with setFieldValue and writes back as it is stored         *)

FieldTypes ==
    {"text", "email", "phone", "personName", "businessName", "streetAddress",
     "creditCard", "currency", "password", "username", "url", "date", "number", "otp"}

\* a form with the one optional field `input` of type t
TypedForm(t) ==
    [order |-> <<"input">>,
     fields |-> [input |-> Field(t, FALSE, 0, 0, "none", "", NULL, "none")]]

InitFormat ==
    /\ InitValidation(Validation(TRUE, "onSubmit", Absent, "touched"))
    /\ \E t \in FieldTypes : InitEngine(TypedForm(t))
    /\ InitNoDrafts

\* setFieldValue(fieldName, values[fieldName]): the stored value written back
WriteBack(fieldName) == SetFieldValue(fieldName, values[fieldName])

NextFormat ==
    \/ \E f \in FieldNames : \E v \in RawInputs(f) : SetFieldValue(f, v)
    \/ \E f \in FieldNames : WriteBack(f)
    \/ \E f \in FieldNames : \E b \in BOOLEAN : SetFieldTouched(f, b)

FormatSpec == InitFormat /\ [][NextFormat]_vars

-----------------------------------------------------------------------------
(* The credit-card check: a required creditCard field, the card numbers     *)
(* written with setFieldValue and validated with validateField              *)

CardForm ==
    [order |-> <<"card">>,
     fields |-> [card |-> Field("creditCard", TRUE, 0, 0, "none", "", NULL, "none")]]

InitCard ==
    /\ InitValidation(Validation(TRUE, "onSubmit", Absent, "touched"))
    /\ InitEngine(CardForm)
    /\ InitNoDrafts

NextCard ==
    \/ \E f \in FieldNames : \E v \in RawInputs(f) : SetFieldValue(f, v)
    \/ \E f \in FieldNames : CallValidateField(f)

CardSpec == InitCard /\ [][NextCard]_vars

-----------------------------------------------------------------------------
(* The validation pipeline as a function: one field "a" of every              *)
(* configuration below beside a required text field "b", with given values,  *)
(* and the caller's validateField and validateForm                           *)

PipelineTypes == {"text", "email", "creditCard", "otp"}
PipelineCustoms == {"none", "zip", "failing"}
PipelineMessages == {NULL, <<"Values differ">>}

Blank == <<" ">>
TwoLetters == <<"a", "b">>
Capitalized == <<"A", "b">>
Email == <<"a", "@", "b", ".", "c">>
Code == <<"A", "B", "C", "-", "1", "2", "3", "4">>
ValidCard == <<"4", "5", "3", "2", "0", "1", "5", "1", "1", "2", "8", "3", "0", "3", "6", "6">>
InvalidCard == <<"4", "5", "3", "2", "0", "1", "5", "1", "1", "2", "8", "3", "0", "3", "6", "7">>

PipelineValues ==
    {<<>>, Blank, TwoLetters, Zip12345, Email, Code, ValidCard, InvalidCard}

PipelineForms ==
    {[order |-> <<"a", "b">>,
      fields |-> [a |-> Field(t, r, min, max, pat, match, msg, custom),
                  b |-> Field("text", TRUE, 0, 0, "none", "", NULL, "none")]] :
        t \in PipelineTypes, r \in BOOLEAN, min \in {0, 3}, max \in {0, 5},
        pat \in {"none", "code"}, match \in {"", "b"}, msg \in PipelineMessages,
        custom \in PipelineCustoms}

InitPipeline ==
    /\ InitValidation(NoValidation)
    /\ InitNoDrafts
    /\ config \in PipelineForms
    /\ \E va \in PipelineValues : \E vb \in {<<>>, Zip12345, Capitalized} :
          values = [f \in {"a", "b"} |-> IF f = "a" THEN va ELSE vb]
    /\ errors = EmptyMap
    /\ touched = [f \in {} |-> FALSE]
    /\ isSubmitting = FALSE
    /\ debounceTimers = [f \in {} |-> [values |-> EmptyMap, written |-> NULL, delay |-> 0]]
    /\ blurTimers = <<>>
    /\ submits = <<>>
    /\ cascades = <<>>
    /\ timeouts = EmptyBag
    /\ mounted = TRUE
    /\ last = Step("init", "", NULL, NULL, NULL, EmptyMap, TRUE)
    /\ afterSubmit = FALSE

NextPipeline ==
    \/ \E f \in FieldNames : CallValidateField(f)
    \/ CallValidateForm

PipelineSpec == InitPipeline /\ [][NextPipeline]_vars

-----------------------------------------------------------------------------
(* Properties *)

\* what the validation pipeline says of fieldName on the current values
Passes(fieldName) == ValidateField(config.fields, values, fieldName) = NULL

\* errors[fieldName] records `error`: the message when there is one, no key otherwise
Records(fieldName, error) ==
    IF error # NULL
    THEN fieldName \in DOMAIN errors /\ errors[fieldName] = error
    ELSE fieldName \notin DOMAIN errors

\* C1: when setValue(F, v) has run, every touched field D whose matchField is F
\* has been validated against the new value of F: errors[D] is the pipeline's
\* message for D on the values that hold now (the match message when D differs
\* from v), and D has no errors key when D passes.
C1_CascadeUsesNewValue ==
    \A D \in FieldNames :
        (/\ last.op = "setValue"
         /\ config.fields[D].matchField = last.field
         /\ IsTouched(touched, D))
        => Records(D, ValidateField(config.fields, values, D))

\* C2: the one pipeline run that a burst of setValue calls on a touched field
\* leaves validates the value the last call of the burst wrote.
C2_DebounceValidatesLastWrite ==
    last.op = "debounce" => last.value = last.written

C4_IsValidAfterSubmit ==
    afterSubmit => (isValid <=> \A f \in FieldNames : Passes(f))

\* C5: isValid is true exactly when errors is empty and some field is touched.
C5_IsValidIffTouched ==
    isValid <=> (DOMAIN errors = {} /\ \E f \in DOMAIN touched : touched[f])

\* C8: in onBlur mode, when the pipeline run of setTouched(field, true) has
\* completed on the current value, errors[field] is the pipeline's message if the
\* value is invalid and is absent if it is valid, whatever it held before.
C8_BlurRecordsResult ==
    (last.op = "blur" /\ last.fresh /\ last.ret # THROWN)
        => Records(last.field, last.ret)

\* C9: a submitForm that has set isSubmitting is followed by isSubmitting = false,
\* whether its validateForm returned or rejected.
C9_SubmittingEnds == isSubmitting ~> ~isSubmitting

\* C9's case: a submitForm whose custom validator threw has ended
C9_Witness == last.op = "submitted" /\ ~last.fresh /\ ~isSubmitting

\* the seven checks of the pipeline for one field, each on its own, in the
\* documented order; NULL for a check that is not configured or passes
Checks(fieldConfig, vals, value) ==
    << IF fieldConfig.required THEN required(value) ELSE NULL,
       IF fieldConfig.minLength # 0 THEN minLength(fieldConfig.minLength, value) ELSE NULL,
       IF fieldConfig.maxLength # 0 THEN maxLength(fieldConfig.maxLength, value) ELSE NULL,
       pattern(fieldConfig.type, value),
       IF fieldConfig.type = "creditCard" THEN creditCardLuhn(value) ELSE NULL,
       IF fieldConfig.matchField # "" /\ value # ValueOf(vals, fieldConfig.matchField)
       THEN MatchMessage(fieldConfig) ELSE NULL,
       IF fieldConfig.customValidation # "none"
       THEN CustomValidation(fieldConfig.customValidation, value) ELSE NULL >>

FirstFailing(checks) ==
    IF \E i \in DOMAIN checks : checks[i] # NULL
    THEN checks[CHOOSE i \in DOMAIN checks :
                   checks[i] # NULL /\ \A j \in 1..(i - 1) : checks[j] = NULL]
    ELSE NULL

\* the outcome of the first failing check of the field validateField was called on
FirstFailingOfLast ==
    FirstFailing(Checks(config.fields[last.field], values, last.value))

C7_PatternOverride ==
    LET fieldConfig == config.fields[last.field]
        checks == Checks(fieldConfig, values, last.value)
    IN  (/\ last.op = "validateField"
         /\ fieldConfig.type = "text"
         /\ fieldConfig.pattern = "code"
         /\ Truthy(last.value)
         /\ \A i \in 1..3 : checks[i] = NULL
         /\ ~MatchCode(last.value))
        => last.ret = PatternMessage("text")

\* C10: validateForm returns the map whose keys are exactly the declared fields
\* with a non-null pipeline result, each mapped to that result.
C10_ValidateFormMap ==
    (last.op = "validateForm" /\ last.fresh) =>
        /\ DOMAIN last.retMap = {f \in FieldNames : ~Passes(f)}
        /\ \A f \in DOMAIN last.retMap :
              last.retMap[f] = ValidateField(config.fields, values, f)

\* C10's case: validateForm has returned the errors of two failing fields
C10_Witness ==
    /\ last.op = "validateForm"
    /\ last.fresh
    /\ Cardinality(DOMAIN last.retMap) = 2

\* C11: setValue(F, raw) removes the errors entry of F, whatever the mode, the
\* policy and touched[F]; and the entry of another field G changes only when G
\* is a touched field whose matchField is F (the cascade).
C11_SetValueClearsError ==
    [][last'.op = "setValue" =>
          /\ last'.field \notin DOMAIN errors'
          /\ \A G \in FieldNames \ {last'.field} :
                ~(config.fields[G].matchField = last'.field /\ IsTouched(touched, G))
                => /\ (G \in DOMAIN errors') = (G \in DOMAIN errors)
                   /\ ErrorOf(errors', G) = ErrorOf(errors, G)]_vars

C13_DefaultsPerOption ==
    (/\ last.op = "setValue"
     /\ IsTouched(touched, last.field)
     /\ mode \notin {"onBlur", "onSubmit"}
     /\ showErrorsOn # "submit")
    => last.field \in DOMAIN debounceTimers

\* the delay the documentation gives a field: its own debounce, else the
\* form's, else 300 ms; a configured 0 is a delay of 0
DocumentedDelay(fieldConfig, formDebounce) ==
    IF FieldDebounce(fieldConfig) # Absent THEN FieldDebounce(fieldConfig)
    ELSE IF formDebounce # Absent THEN formDebounce
    ELSE DefaultDebounce

\* C14: a pending debounced validation of a field waits for the field's own
\* debounce when configured, else the form's when configured, else 300 ms, and
\* a configured 0 means no delay.
C14_DebounceDelay ==
    \A f \in DOMAIN debounceTimers :
        debounceTimers[f].delay = DocumentedDelay(config.fields[f], debounce)

C16_BindingHonoursPolicy ==
    \A f \in FieldNames :
        /\ showErrorsOn = "immediate" => getFieldProps(f).error = ErrorEntry(errors, f)
        /\ showErrorsOn = "submit" => getFieldProps(f).error = UNDEFINED

C18_AutoSaveTrailingEdge ==
    /\ Cardinality(saveTimers) <= 1
    /\ last.op \in {"setValue", "setTouched"} =>
          saveTimers = {[due |-> now + AutoSaveDebounceTime, values |-> values,
                         touched |-> touched]}
    /\ (last.op = "autoSave" /\ mutatedAt # Absent) =>
          /\ now = mutatedAt + AutoSaveDebounceTime
          /\ ~last.failed =>
                StorageLoad(store, AutoSaveKey)
                    = JSONStringify(DraftData(values, touched, now))

\* C19: the load on mount acts once: onDraftFound, when supplied, is called
\* once, and the call leaves values and touched alone; without it a stored
\* draft that has not expired is applied; and once a draft has been loaded no
\* further storage.load is started.
C19_MountLoadOnce ==
    [][/\ (last'.op = "mountLoad" /\ last'.ret = <<"onDraftFound">>)
          => (~draftFound /\ values' = values /\ touched' = touched)
       /\ (last'.op = "mountLoad" /\ last'.ret = <<"loadDraft">>
              /\ last'.draft.kind = "draft")
          => (/\ values' = last'.draft.values
              /\ touched' = last'.draft.touched
              /\ draftLoaded')
       /\ draftLoaded => loads' <= loads]_vars

\* C20: when the storage adapter rejects, or the stored data does not parse or
\* is not a draft, saveDraft, clearDraft, hasDraft and the load on mount leave
\* values, errors, touched and isSubmitting as they were, and hasDraft gives false.
C20_FailuresContained ==
    [][(/\ last'.op \in {"saveDraft", "autoSave", "clearDraft", "hasDraft", "mountLoad"}
        /\ last'.failed)
       => /\ values' = values
          /\ errors' = errors
          /\ touched' = touched
          /\ isSubmitting' = isSubmitting
          /\ last'.op = "hasDraft" => last'.ret = <<"false">>]_vars
\* C21: in every reachable state the keys of values include every declared
\* field name; setValue, setTouched, submitForm, resetForm and loadDraft (also of
\* a draft whose values omit a declared field) remove no declared field's key.
C21_ValuesKeepDeclaredKeys == FieldNames \subseteq DOMAIN values

\* C22: in every reachable state each key of errors maps to a non-empty string;
\* after any setValue, setError, setTouched, submitForm, cascade and timer, no
\* key is present with an empty or null value.
C22_ErrorsNonEmpty == \A f \in DOMAIN errors : Truthy(errors[f])

\* C23: resetForm sets values[f] = '' for every declared field, empties errors
\* and touched, and sets isSubmitting = false, from any reachable state.
C23_ResetRestoresInitial ==
    last.op = "reset" =>
        /\ values = [f \in FieldNames |-> <<>>]
        /\ DOMAIN errors = {}
        /\ DOMAIN touched = {}
        /\ isSubmitting = FALSE

\* C23's case: a reset of a form on which a touched field had been written (its
\* debounce timer is still pending)
C23_Witness ==
    /\ last.op = "reset"
    /\ \E f \in DOMAIN debounceTimers : Truthy(debounceTimers[f].written)
    /\ \A f \in FieldNames : values[f] = <<>>
    /\ DOMAIN errors = {}
    /\ DOMAIN touched = {}

\* C24: validateField and validateForm return their result and leave values,
\* errors, touched and isSubmitting unchanged.
C24_ValidateReadOnly ==
    [][last'.op \in {"validateField", "validateForm"}
       => /\ values' = values
          /\ errors' = errors
          /\ touched' = touched
          /\ isSubmitting' = isSubmitting]_vars

\* C24's case: validateField has returned an error, or validateForm a map of
\* errors, and errors has no entry
C24_Witness ==
    /\ \/ last.op = "validateField" /\ last.ret \notin {NULL, THROWN}
       \/ last.op = "validateForm" /\ DOMAIN last.retMap # {}
    /\ DOMAIN errors = {}

C26_MatchExactEquality ==
    LET fieldConfig == config.fields[last.field]
        checks == Checks(fieldConfig, values, last.value)
        expected == IF fieldConfig.matchErrorMessage # NULL
                    THEN fieldConfig.matchErrorMessage
                    ELSE <<"Must match ", fieldConfig.matchField>>
    IN  (last.op = "validateField" /\ fieldConfig.matchField # "") =>
            /\ last.value = values[fieldConfig.matchField] => last.ret # expected
            /\ (/\ Truthy(last.value)
                /\ \A i \in 1..5 : checks[i] = NULL
                /\ last.value # values[fieldConfig.matchField])
               => last.ret = expected

\* C26's case: two values that differ only in case have got the default message
C26_Witness ==
    /\ last.op = "validateField"
    /\ config.fields[last.field].matchField = "b"
    /\ config.fields[last.field].matchErrorMessage = NULL
    /\ last.value = TwoLetters
    /\ values.b = Capitalized
    /\ last.ret = <<"Must match ", "b">>

\* C27: a draft written by saveDraft holds the values and touched of the time of
\* the save; the string stored under a key changes only by a save or a remove
\* under that key, so drafts under different keys do not affect one another;
\* loadDraft of the stored draft, parsed, before it expires makes values and
\* touched the draft's; and after a remove the key loads as null.
C27_DraftRoundTrip ==
    [][LET stored == JSONParse(StorageLoad(store, AutoSaveKey))
       IN  /\ (last'.op = "saveDraft" /\ ~last'.failed)
              => /\ JSONParse(StorageLoad(store', AutoSaveKey)).kind = "draft"
                 /\ JSONParse(StorageLoad(store', AutoSaveKey)).values = values
                 /\ JSONParse(StorageLoad(store', AutoSaveKey)).touched = touched
           /\ (last'.op = "clearDraft" /\ ~last'.failed)
              => StorageLoad(store', AutoSaveKey) = NoData
           /\ last'.op \in {"saveDraft", "clearDraft", "loadDraft", "mountLoad"}
              => StorageLoad(store', OtherKey) = StorageLoad(store, OtherKey)
           /\ ~(\/ last'.op \in {"saveDraft", "clearDraft"}
                \/ last'.op \in {"loadDraft", "mountLoad"} /\ last'.ret = <<"clearDraft">>)
              => StorageLoad(store', AutoSaveKey) = StorageLoad(store, AutoSaveKey)
           /\ (/\ last'.op = "loadDraft"
               /\ last'.draft = stored
               /\ stored.kind = "draft"
               /\ last'.ret # <<"clearDraft">>)
              => /\ values' = stored.values
                 /\ touched' = stored.touched]_vars

\* C27's case: a draft that saveDraft wrote has been read back and applied by
\* loadDraft, while the store holds another form's draft under another key
C27_Witness ==
    /\ last.op = "loadDraft"
    /\ last.draft = JSONParse(StorageLoad(store, AutoSaveKey))
    /\ last.draft.kind = "draft"
    /\ last.draft.values = [name |-> <<"A">>]
    /\ values = [name |-> <<"A">>]
    /\ touched = last.draft.touched
    /\ OtherKey \in DOMAIN store

\* the Luhn checksum as it is defined: from the rightmost digit, every second
\* digit is doubled and the digits of the products are added; the total of
\* all digits is a multiple of 10
RECURSIVE LuhnTotal(_, _)
LuhnTotal(digits, k) ==
    IF k > Len(digits) THEN 0
    ELSE LET d == DigitValue(digits[Len(digits) + 1 - k])
         IN  (IF k % 2 = 0 THEN ((2 * d) \div 10) + ((2 * d) % 10) ELSE d)
             + LuhnTotal(digits, k + 1)

PassesLuhn(digits) == LuhnTotal(digits, 1) % 10 = 0

\* x is a with exactly one digit changed
OneDigitChanged(a, x) ==
    /\ Len(a) = Len(x)
    /\ Cardinality({i \in DOMAIN a : a[i] # x[i]}) = 1

\* C28: on a required creditCard field validateField returns null for every
\* digit sequence of 13 to 19 digits that passes the Luhn checksum, an error
\* for such a number with one digit changed, and an error for every sequence
\* of fewer than 13 or more than 19 digits, whatever its checksum.
C28_CardCheck ==
    LET digits == Keep(last.value, Digit)
    IN  last.op = "validateField" =>
            /\ (Len(digits) \in 13..19 /\ PassesLuhn(digits)) => last.ret = NULL
            /\ (Len(digits) < 13 \/ Len(digits) > 19) => last.ret # NULL
            /\ (\E b \in CardBases :
                    /\ Len(b) \in 13..19
                    /\ PassesLuhn(b)
                    /\ OneDigitChanged(b, digits))
               => last.ret # NULL

\* C28's case: the 19-digit number with its last digit changed has been rejected
\* by the checksum
C28_Witness ==
    /\ last.op = "validateField"
    /\ OneDigitChanged(Card19, Keep(last.value, Digit))
    /\ Keep(last.value, Digit)[19] # Card19[19]
    /\ last.ret = CardLuhnMessage

\* C29: auto-format is idempotent for every field type: a value that
\* setFieldValue has stored is left unchanged by the type's formatter, so
\* writing it back through setValue does not change it.
C29_FormatIdempotent ==
    last.op = "setValue" =>
        FormatAuto(values[last.field], config.fields[last.field].type)
            = values[last.field]

\* C30: the cascade of setValue(F, v) runs inside the call: when setValue has
\* returned, the errors entry of every touched field whose matchField is F is
\* already what the cascade's validation found; the debounced validation of F
\* itself is still to come, its timer pending.
C30_CascadeInsideCall ==
    last.op = "setValue" =>
        /\ \A i \in DOMAIN cascades : Records(cascades[i].field, cascades[i].error)
        /\ last.fresh => last.field \in DOMAIN debounceTimers

\* the pending debounce timeouts of fieldName, and how many there are
TimeoutsOf(pending, fieldName) == {t \in BagToSet(pending) : t.field = fieldName}

AtMostOnePending(pending, fieldName) ==
    /\ Cardinality(TimeoutsOf(pending, fieldName)) <= 1
    /\ \A t \in TimeoutsOf(pending, fieldName) : CopiesIn(t, pending) = 1

C32_UnmountCancelsTimers ==
    ~mounted => /\ timeouts = EmptyBag
                /\ blurTimers = <<>>
                /\ saveTimers = {}

\* a step in which a validation of fieldName resolves, and its result for the field
Resolves(step, fieldName) ==
    \/ step.op \in {"debounce", "blur", "cascade"} /\ step.field = fieldName
                                                   /\ step.ret # THROWN
    \/ step.op = "submitted" /\ step.fresh

ResultFor(step, fieldName) ==
    IF step.op = "submitted" THEN ErrorOf(step.retMap, fieldName) ELSE step.ret

\* C33: a validation result is applied when it resolves, whatever the field's
\* value is by then: of two validations of one field that were pending
\* together and resolve one after the other, the one that resolves last
\* determines errors[field] (its message, or no entry when it passed).
C33_LastResolvedWins ==
    [][\A f \in FieldNames :
          (Resolves(last, f) /\ Resolves(last', f)) =>
              IF ResultFor(last', f) # NULL
              THEN f \in DOMAIN errors' /\ errors'[f] = ResultFor(last', f)
              ELSE f \notin DOMAIN errors']_vars

\* C34: whenever isValid is true, every declared field passes its validation
\* pipeline on the current values.
C34_IsValidSound == isValid => \A f \in FieldNames : Passes(f)

\* no timer is pending and no continuation is suspended
Quiescent ==
    /\ timeouts = EmptyBag
    /\ blurTimers = <<>>
    /\ MicrotasksDrained

\* C35: in onChange mode, once every pending timer has fired, errors[field]
\* holds the pipeline's message for every touched field whose value fails the
\* pipeline (unless the caller has set the entry with setFieldError).
C35_ErrorsCatchUp ==
    (mode = "onChange" /\ Quiescent) =>
        \A f \in FieldNames :
            LET failure == ValidateField(config.fields, values, f)
            IN  (/\ IsTouched(touched, f)
                 /\ failure \notin {NULL, THROWN}
                 /\ ErrorOf(errors, f) # ServerError) => Records(f, failure)

\* the form as resetForm leaves it
IsReset ==
    /\ values = InitialValues(config)
    /\ DOMAIN errors = {}
    /\ DOMAIN touched = {}

\* the steps that are not calls of the caller: timer callbacks and continuations
CallbackOps == {"debounce", "blur", "cascade", "submitted"}

\* C36: after resetForm the form stays reset until the caller's next
\* operation: a timer callback or a continuation that runs on the reset form
\* leaves values all-empty, errors empty and touched empty.
C36_ResetIsFinal ==
    [][((last.op = "reset" \/ last.op \in CallbackOps) /\ IsReset
          /\ last'.op \in CallbackOps) => IsReset']_vars

\* C37: once clearDraft has removed the draft, the store holds no draft under
\* the configured key until values or touched are set again: an auto-save
\* timer that was pending at the clearDraft does not save.
C37_ClearDraftHolds == cleared => AutoSaveKey \notin DOMAIN store

\* C38: the auto-save timer calls storage.save only after values or touched
\* have been set at least once: mounting the form alone never saves, so a draft
\* in the store is not overwritten by the pristine form.
C38_SaveAfterMutation ==
    (last.op = "autoSave" /\ ~last.failed) => mutatedAt # Absent

\* C39: when the mount-time load resolves, with no onDraftFound callback, a
\* value that setValue has written before is still in values afterwards.
C39_MountLoadKeepsEdits ==
    [][(last'.op = "mountLoad" /\ ~autoSave.onDraftFound) =>
          \A f \in FieldNames :
              Truthy(values[f]) => (f \in DOMAIN values' /\ values'[f] = values[f])]_vars

\* C40: isSubmitting is true exactly while the validation pass of some
\* submitForm call is in flight.
C40_SubmittingTracksSubmits == isSubmitting <=> submits # <<>>

====
